---- MODULE Spec2Model ----
(***************************************************************************)
(* Course-generation backend: the request handler generate_course, the  *)
(* background pipeline generate_course_content_task_impl, the stage     *)
(* functions of LLMService it calls, the progress events it publishes and *)
(* the store (committed rows) against the run's private session.        *)
(***************************************************************************)
EXTENDS Integers, Sequences, FiniteSets, TLC

(* ------------------------------ bounds --------------------------------- *)

\* most chapters a skeleton response carries
MaxChapters == 2
\* most sections a chapter-content response carries
MaxSections == 2
\* most knowledge points a section descriptor carries
MaxPoints == 1

(* --------------------------- program constants ------------------------- *)

\* _retry_llm_call(max_retries=3): attempts are range(max_retries + 1)
max_retries == 3

\* ids the store's autoincrement may hand to the next course
CourseIds == {2, 12}

\* chapter_id values a skeleton response may carry (ChapterStructure.chapter_id: int)
ChapterIdValues == {1, 2}

(* ------------------------------ helpers -------------------------------- *)

Range(s) == {s[i] : i \in 1..Len(s)}

RECURSIVE Concat(_)
Concat(ss) == IF ss = <<>> THEN <<>> ELSE Head(ss) \o Concat(Tail(ss))

IsNonDecreasing(s) == \A i \in 1..Len(s) : \A j \in i..Len(s) : s[i] <= s[j]

(* ------------------------ identifiers and labels ----------------------- *)

\* task_id = f"task-{course_id}"
TaskId_DropsDigits(cid) == "task-" \o ToString(cid % 10)
TaskId(cid) == "task-" \o ToString(cid)

\* section_number = f"{chapter.chapter_number}.{i}"
SectionNumber_ZeroBased(chapter_number, i) ==
    ToString(chapter_number) \o "." \o ToString(i - 1)
SectionNumber(chapter_number, i) ==
    ToString(chapter_number) \o "." \o ToString(i)

\* point_id = f"{chapter.chapter_number}.{i}.{j}"
PointId(chapter_number, i, j) ==
    ToString(chapter_number) \o "." \o ToString(i) \o "." \o ToString(j)

\* progress = 75 + (idx / total_chapters) * 20 ; int(progress)
ContentProgress_Countdown(idx, total_chapters) ==
    75 + ((total_chapters - idx) * 20) \div total_chapters
ContentProgress(idx, total_chapters) ==
    75 + (idx * 20) \div total_chapters

(* ------------------------------- events -------------------------------- *)

NoPercent == -1

\* send_progress_update: {"type": "progress", step, progress}
ProgressEvent_OneLabel(task, step, percent) ==
    [type |-> "progress", task_id |-> task, step |-> "content",
     percent |-> percent, success |-> "none"]
ProgressEvent(task, step, percent) ==
    [type |-> "progress", task_id |-> task, step |-> step,
     percent |-> percent, success |-> "none"]

\* send_error_update: {"type": "error", message, step?}
ErrorEvent(task, step) ==
    [type |-> "error", task_id |-> task, step |-> step,
     percent |-> NoPercent, success |-> "none"]

\* send_completion_update: {"type": "completion", success, course_id?}
CompletionEvent(task, success) ==
    [type |-> "completion", task_id |-> task, step |-> "none",
     percent |-> NoPercent, success |-> IF success THEN "true" ELSE "false"]

(* --------------------- Text Generation Service ------------------------- *)

\* What the service does on one stage call: the outcome of each successive
\* attempt ("ok", "exception", or "short": content under 10 characters), how
\* the returned text parses ("valid": directly; "comma": only after the
\* missing-comma regex repair; "malformed": neither) and whether the
\* OutputFixingParser round trip yields parseable text.
LLMBehaviour(attempts, parse, fix_ok) ==
    [attempts |-> attempts, parse |-> parse, fix_ok |-> fix_ok]

AllOk == [k \in 1..(max_retries + 1) |-> "ok"]
AllFail == [k \in 1..(max_retries + 1) |->
               IF k % 2 = 1 THEN "exception" ELSE "short"]
LateOk == [k \in 1..(max_retries + 1) |->
               IF k = max_retries + 1 THEN "ok"
               ELSE IF k % 2 = 1 THEN "exception" ELSE "short"]

\* the behaviours a pipeline run is checked against
RunBehaviours ==
    { LLMBehaviour(AllOk, "valid", FALSE),
      LLMBehaviour(LateOk, "comma", FALSE),
      LLMBehaviour(AllOk, "malformed", TRUE),
      LLMBehaviour(AllOk, "malformed", FALSE),
      LLMBehaviour(AllFail, "valid", FALSE) }

\* _retry_llm_call: the first attempt in range(max_retries + 1) that returns
\* content of at least 10 characters; LLMMaxRetriesExceededError otherwise
RetryLLMCall(attempts) ==
    IF \E k \in 1..(max_retries + 1) : attempts[k] = "ok"
    THEN "returned" ELSE "max_retries_exceeded"

\* generate_course_introduction / generate_learning_objectives:
\* direct parse, then regex repair, then OutputFixingParser
ParseWithRepair(llm) ==
    \/ llm.parse = "valid"
    \/ llm.parse = "comma"
    \/ llm.fix_ok

\* generate_chapter_structure: OutputFixingParser only (direct parse, then fix)
ParseWithFixingParser(llm) ==
    \/ llm.parse = "valid"
    \/ llm.fix_ok

\* generate_simple_chapter_content: re.search + json.loads + SimpleChapterContent
ParseDirect(llm) == llm.parse = "valid"

StageOutcome(success, data) == [success |-> success, data |-> data]

generate_course_introduction(llm) ==
    StageOutcome(RetryLLMCall(llm.attempts) = "returned" /\ ParseWithRepair(llm), <<>>)

generate_learning_objectives(llm) ==
    StageOutcome(RetryLLMCall(llm.attempts) = "returned" /\ ParseWithRepair(llm), <<>>)

\* data: the parsed CourseStructure.chapters, each with its chapter_id
generate_chapter_structure(llm, chapters) ==
    IF RetryLLMCall(llm.attempts) = "returned" /\ ParseWithFixingParser(llm)
    THEN StageOutcome(TRUE, chapters) ELSE StageOutcome(FALSE, <<>>)

\* data: the parsed SimpleChapterContent.sections
generate_simple_chapter_content(llm, sections) ==
    IF RetryLLMCall(llm.attempts) = "returned" /\ ParseDirect(llm)
    THEN StageOutcome(TRUE, sections) ELSE StageOutcome(FALSE, <<>>)

(* ------------------------ service responses ---------------------------- *)

\* skeleton responses: up to MaxChapters chapter descriptors, any chapter_id
SkeletonResponses ==
    UNION { [1..k -> [chapter_id : ChapterIdValues]] : k \in 0..MaxChapters }

\* number of knowledge points of the i-th section of a sample response
KpCount(i, rev) == (IF rev THEN i - 1 ELSE i) % (MaxPoints + 1)

\* a chapter-content response: ns section descriptors, their titles (and the
\* titles of their knowledge points) in or against numeric order
ContentResponse(ns, rev) ==
    [i \in 1..ns |->
        [title |-> "S" \o ToString(IF rev THEN ns + 1 - i ELSE i),
         knowledge_points |->
            [j \in 1..KpCount(i, rev) |->
                [title |-> "K" \o ToString(IF rev THEN KpCount(i, rev) + 1 - j ELSE j)]]]]

ContentResponses ==
    { ContentResponse(ns, rev) : ns \in 0..MaxSections, rev \in BOOLEAN }

(* ------------------------------ state ---------------------------------- *)

VARIABLES
    pc,               \* position of the request / the run
    store,            \* committed rows: course, chapters, sections, points
    sess,             \* the run's session: committed rows plus pending work
    sess_inactive,    \* the session's transaction failed in a flush
    events,           \* events published on the run's task id, in order
    response,         \* what generate_course returned
    course_id,        \* id of the created course
    chapters_list,    \* ids of the chapters the content loop iterates over
    idx,              \* loop index of the chapter in the content stage
    structure_result, \* structure_result['success'] of the run
    content_results,  \* content_result of every chapter processed so far
    path,             \* how the run ended: not_found, completed, raised
    llm_calls,        \* stage calls made to the Text Generation Service
    resources         \* the worker pools and the session of the request

vars == <<pc, store, sess, sess_inactive, events, response, course_id,
          chapters_list, idx, structure_result, content_results, path,
          llm_calls, resources>>

\* the ConnectionManager and the sockets of its endpoint
VARIABLES active_connections, conns, bc, events_published, chan_raised

chan_vars == <<active_connections, conns, bc, events_published, chan_raised>>

\* one stage call of LLMService, step by step
VARIABLES call

llm_vars == <<call>>

\* the documents table, the queued and running process_document_task
\* calls, and the answer to the last document request
VARIABLES docs, doc_tasks, doc_response

doc_vars == <<docs, doc_tasks, doc_response>>

\* the courses, chapters, sections and knowledge_points tables; the run of
\* each course; what the subscribers of each task id received; the answer to
\* the last request; the requests made so far
VARIABLES tables, runs, inboxes, reply, requests

store_vars == <<tables, runs, inboxes, reply, requests>>

\* what a step of the generation run leaves alone
outside_run == <<chan_vars, llm_vars, doc_vars, store_vars>>

\* what a step on the course store leaves alone
outside_store == <<vars, chan_vars, llm_vars, doc_vars>>

NoCourse == [exists |-> FALSE, status |-> "none", introduced |-> FALSE]

EmptyStore ==
    [course |-> NoCourse, chapters |-> <<>>, sections |-> <<>>, points |-> <<>>]

NoResponse == [course_id |-> 0, task_id |-> ""]

\* executor: the pool generate_course creates; thread_executor and db: the
\* pool and the session the run creates
NoResources == [executor |-> "none", thread_executor |-> "none", db |-> "none"]

Init ==
    /\ pc = "idle"
    /\ store = EmptyStore
    /\ sess = EmptyStore
    /\ sess_inactive = FALSE
    /\ events = <<>>
    /\ response = NoResponse
    /\ course_id \in CourseIds
    /\ chapters_list = <<>>
    /\ idx = 0
    /\ structure_result = "none"
    /\ content_results = <<>>
    /\ path = "none"
    /\ llm_calls = 0
    /\ resources = NoResources

task_id == TaskId(course_id)

(* ------------------------- course tree writer -------------------------- *)

\* Chapter(chapter_number=chapter_info.get('chapter_id', i + 1)) for each
\* descriptor, in response order; base is the number of chapter rows so far
ChapterNumber(chapter_info, i) ==
    IF "chapter_id" \in DOMAIN chapter_info THEN chapter_info.chapter_id ELSE i

SkeletonChapters(chapters_data, base) ==
    [i \in 1..Len(chapters_data) |->
        [id |-> base + i, chapter_number |-> ChapterNumber(chapters_data[i], i)]]

\* Fallback: create a basic chapter structure
FallbackChapters_None(base) == <<>>
FallbackChapters(base) == << [id |-> base + 1, chapter_number |-> 1] >>

\* the Section rows of one chapter's response, numbered by enumerate(.., 1)
GeneratedSections(chapter, sections_data, base) ==
    [i \in 1..Len(sections_data) |->
        [id |-> base + i,
         chapter_id |-> chapter.id,
         section_number |-> SectionNumber(chapter.chapter_number, i),
         title |-> sections_data[i].title]]

\* the KnowledgePoint rows of the i-th section of the response
SectionPoints(chapter, section_id, i, knowledge_points_data) ==
    [j \in 1..Len(knowledge_points_data) |->
        [section_id |-> section_id,
         point_id |-> PointId(chapter.chapter_number, i, j),
         title |-> knowledge_points_data[j].title]]

GeneratedPoints(chapter, sections_data, base) ==
    Concat([i \in 1..Len(sections_data) |->
        SectionPoints(chapter, base + i, i, sections_data[i].knowledge_points)])

\* the fallback Section of a chapter whose content stage failed (kind
\* "overview") or raised (kind "error")
PlaceholderSections_WithPrevious(chapter, kind, base) ==
    << [id |-> base + 1,
        chapter_id |-> IF chapter.id > 1 THEN chapter.id - 1 ELSE chapter.id,
        section_number |-> SectionNumber(chapter.chapter_number, 1),
        title |-> IF kind = "overview" THEN "PlaceholderOverview"
                  ELSE "PlaceholderError"] >>
PlaceholderSections(chapter, kind, base) ==
    << [id |-> base + 1,
        chapter_id |-> chapter.id,
        section_number |-> SectionNumber(chapter.chapter_number, 1),
        title |-> IF kind = "overview" THEN "PlaceholderOverview"
                  ELSE "PlaceholderError"] >>

ChapterById(db, id) == CHOOSE c \in Range(db.chapters) : c.id = id

(* --------------------------- request handlers -------------------------- *)

\* generate_course: create and commit the course, submit the run to a worker
\* thread, answer at once
GenerateCourse ==
    /\ UNCHANGED outside_run
    /\ resources' = [resources EXCEPT !.executor = "open"]
    /\ pc = "idle"
    /\ store' = [store EXCEPT !.course =
                    [exists |-> TRUE, status |-> "published", introduced |-> FALSE]]
    /\ response' = [course_id |-> course_id, task_id |-> TaskId(course_id)]
    /\ pc' = "submitted"
    /\ UNCHANGED <<sess, sess_inactive, events, course_id, chapters_list, idx,
                   structure_result, content_results, path, llm_calls>>

\* delete_course, before the run has looked the course up
DeleteCourse ==
    /\ UNCHANGED <<outside_run, resources>>
    /\ pc = "submitted"
    /\ store.course.exists
    /\ store' = EmptyStore
    /\ UNCHANGED <<pc, sess, sess_inactive, events, response, course_id,
                   chapters_list, idx, structure_result, content_results, path,
                   llm_calls>>

(* ------------------- generate_course_content_task_impl ----------------- *)

Publish(es) == events' = events \o es

\* an exception left the stage-level guards: control goes to the outer handler
Raise == pc' = "handler"

\* initializing: first progress event, then the course lookup; a missing
\* course ends the run with an error event only
Initialize ==
    /\ UNCHANGED outside_run
    /\ resources' = [resources EXCEPT !.db = "open", !.thread_executor = "open"]
    /\ pc = "submitted"
    /\ sess' = store
    /\ IF store.course.exists
       THEN /\ Publish(<<ProgressEvent(task_id, "initializing", 5)>>)
            /\ pc' = "prepare"
            /\ path' = path
       ELSE /\ Publish(<<ProgressEvent(task_id, "initializing", 5),
                         ErrorEvent(task_id, "initializing")>>)
            /\ pc' = "cleanup"
            /\ path' = "not_found"
    /\ UNCHANGED <<store, sess_inactive, response, course_id, chapters_list, idx,
                   structure_result, content_results, llm_calls>>

\* LLMService() (may raise), then the preparing and introduction checkpoints
Prepare ==
    /\ UNCHANGED <<outside_run, resources>>
    /\ pc = "prepare"
    /\ \E fault \in BOOLEAN :
         IF fault
         THEN Raise /\ UNCHANGED events
         ELSE /\ Publish(<<ProgressEvent(task_id, "preparing", 10),
                           ProgressEvent(task_id, "introduction", 20)>>)
              /\ pc' = "introduction"
    /\ UNCHANGED <<store, sess, sess_inactive, response, course_id, chapters_list,
                   idx, structure_result, content_results, path, llm_calls>>

\* 1. introduction: on success the course fields are set and committed at once
Introduction ==
    /\ UNCHANGED <<outside_run, resources>>
    /\ pc = "introduction"
    /\ llm_calls' = llm_calls + 1
    /\ \E llm \in RunBehaviours, fault \in BOOLEAN :
         LET intro_result == generate_course_introduction(llm)
             updated == [sess EXCEPT !.course.introduced = TRUE]
         IN  IF intro_result.success
             THEN IF fault
                  THEN /\ sess' = updated
                       /\ Raise
                       /\ UNCHANGED <<store, events>>
                  ELSE /\ sess' = updated
                       /\ store' = updated
                       /\ Publish(<<ProgressEvent(task_id, "introduction", 30),
                                    ProgressEvent(task_id, "objectives", 40)>>)
                       /\ pc' = "objectives"
             ELSE /\ ~fault
                  /\ Publish(<<ErrorEvent(task_id, "introduction"),
                               ProgressEvent(task_id, "objectives", 40)>>)
                  /\ pc' = "objectives"
                  /\ UNCHANGED <<store, sess>>
    /\ UNCHANGED <<sess_inactive, response, course_id, chapters_list, idx,
                   structure_result, content_results, path>>

\* 2. objectives: course.objectives is no column of Course, nothing is stored
Objectives ==
    /\ UNCHANGED <<outside_run, resources>>
    /\ pc = "objectives"
    /\ llm_calls' = llm_calls + 1
    /\ \E llm \in RunBehaviours :
         LET objectives_result == generate_learning_objectives(llm)
         IN  IF objectives_result.success
             THEN Publish(<<ProgressEvent(task_id, "objectives", 50),
                            ProgressEvent(task_id, "structure", 60)>>)
             ELSE Publish(<<ErrorEvent(task_id, "objectives"),
                            ProgressEvent(task_id, "structure", 60)>>)
    /\ pc' = "structure"
    /\ UNCHANGED <<store, sess, sess_inactive, response, course_id, chapters_list,
                   idx, structure_result, content_results, path>>

\* 3. structure: chapter rows from the response, or the fallback chapter;
\* flushed row by row, committed as a batch before the content stage
Structure ==
    /\ UNCHANGED <<outside_run, resources>>
    /\ pc = "structure"
    /\ llm_calls' = llm_calls + 1
    /\ \E llm \in RunBehaviours, chapters_data \in SkeletonResponses,
          fault \in {"none", "flush", "commit"} :
         LET result == generate_chapter_structure(llm, chapters_data)
             base == Len(sess.chapters)
             rows == IF result.success
                     THEN SkeletonChapters(result.data, base)
                     ELSE FallbackChapters(base)
             report == IF result.success THEN <<>>
                       ELSE <<ErrorEvent(task_id, "structure")>>
             added == [sess EXCEPT !.chapters = @ \o rows]
         IN  /\ result.success \/ chapters_data = <<>>
             /\ structure_result' = IF result.success THEN "success" ELSE "failure"
             /\ chapters_list' = IF fault = "flush" THEN <<>>
                                 ELSE [i \in 1..Len(rows) |-> rows[i].id]
             /\ CASE fault = "flush" ->
                       /\ rows # <<>>
                       /\ sess' = [sess EXCEPT !.chapters = Append(@, rows[1])]
                       /\ Publish(report)
                       /\ Raise
                       /\ UNCHANGED <<store, idx>>
                  [] fault = "commit" ->
                       /\ sess' = added
                       /\ Publish(report \o <<ProgressEvent(task_id, "structure", 70)>>)
                       /\ Raise
                       /\ UNCHANGED <<store, idx>>
                  [] OTHER ->
                       /\ sess' = added
                       /\ store' = added
                       /\ Publish(report \o
                                  <<ProgressEvent(task_id, "structure", 70),
                                    ProgressEvent(task_id, "content", 75)>>)
                       /\ idx' = 1
                       /\ pc' = "content"
    /\ UNCHANGED <<sess_inactive, response, course_id, content_results, path>>

\* enumerate(chapters_list, 1): the loop goes on to the next pair
NextChapter_Same(i) == i
NextChapter(i) == i + 1

\* 4. loop head: the progress event of chapter idx; reading the chapter's
\* expired attributes goes to the store and may raise outside the inner guard
ChapterBegin ==
    /\ UNCHANGED <<outside_run, resources>>
    /\ pc = "content"
    /\ idx <= Len(chapters_list)
    /\ \E fault \in BOOLEAN :
         IF fault \/ sess_inactive
         THEN Raise /\ UNCHANGED events
         ELSE /\ Publish(<<ProgressEvent(task_id, "content",
                              ContentProgress(idx, Len(chapters_list)))>>)
              /\ pc' = "content_call"
    /\ UNCHANGED <<store, sess, sess_inactive, response, course_id, chapters_list,
                   idx, structure_result, content_results, path, llm_calls>>

\* 4. loop body: the chapter's content call returns; sections and points are
\* added and flushed (not committed), or the placeholder section is added.
\* A flush that raises is caught by the inner guard and leaves the session
\* inactive. fail_at = 0: no flush raises; otherwise the flush of that section.
ChapterEnd ==
    /\ UNCHANGED <<outside_run, resources>>
    /\ pc = "content_call"
    /\ llm_calls' = llm_calls + 1
    /\ \E llm \in RunBehaviours, sections_data \in ContentResponses,
          fail_at \in 0..MaxSections :
         LET content_result == generate_simple_chapter_content(llm, sections_data)
             chapter == ChapterById(sess, chapters_list[idx])
             base == Len(sess.sections)
             data == content_result.data
         IN  /\ content_result.success \/ sections_data = <<>>
             /\ fail_at <= Len(data)
             /\ content_results' = Append(content_results, content_result)
             /\ IF ~content_result.success
                THEN /\ sess' = [sess EXCEPT !.sections =
                                   @ \o PlaceholderSections(chapter, "overview", base)]
                     /\ UNCHANGED sess_inactive
                ELSE IF fail_at = 0
                THEN /\ sess' = [sess EXCEPT
                           !.sections = @ \o GeneratedSections(chapter, data, base),
                           !.points = @ \o GeneratedPoints(chapter, data, base)]
                     /\ UNCHANGED sess_inactive
                ELSE LET done == SubSeq(data, 1, fail_at)
                         kept == [i \in 1..fail_at |->
                                    IF i < fail_at THEN data[i]
                                    ELSE [data[i] EXCEPT !.knowledge_points = <<>>]]
                     IN /\ sess' = [sess EXCEPT
                              !.sections = @ \o GeneratedSections(chapter, done, base)
                                  \o PlaceholderSections(chapter, "error", base + fail_at),
                              !.points = @ \o GeneratedPoints(chapter, kept, base)]
                        /\ sess_inactive' = TRUE
    /\ idx' = NextChapter(idx)
    /\ pc' = "content"
    /\ UNCHANGED <<store, events, response, course_id, chapters_list,
                   structure_result, path>>

\* course.status = "published"
MarkPublished_Draft(db) == [db EXCEPT !.course.status = "draft"]
MarkPublished(db) == [db EXCEPT !.course.status = "published"]

\* after the loop: status published, commit of everything pending, completion
Finalize ==
    /\ UNCHANGED <<outside_run, resources>>
    /\ pc = "content"
    /\ idx > Len(chapters_list)
    /\ \E fault \in BOOLEAN :
         LET published == MarkPublished(sess)
         IN  /\ sess' = published
             /\ IF fault \/ sess_inactive
                THEN Raise /\ UNCHANGED <<store, events, path>>
                ELSE /\ store' = published
                     /\ Publish(<<CompletionEvent(task_id, TRUE)>>)
                     /\ path' = "completed"
                     /\ pc' = "cleanup"
    /\ UNCHANGED <<sess_inactive, response, course_id, chapters_list, idx,
                   structure_result, content_results, llm_calls>>

\* except Exception: error event, rollback, then (guarded) status failed,
\* commit and the failure completion event; a raise in there is only logged
Handler ==
    /\ UNCHANGED <<outside_run, resources>>
    /\ pc = "handler"
    /\ sess_inactive' = FALSE
    /\ path' = "raised"
    /\ \E fault \in BOOLEAN :
         IF fault
         THEN /\ sess' = store
              /\ Publish(<<ErrorEvent(task_id, "none")>>)
              /\ UNCHANGED store
         ELSE LET failed == IF store.course.exists
                            THEN [store EXCEPT !.course.status = "failed"]
                            ELSE store
              IN /\ sess' = failed
                 /\ store' = failed
                 /\ Publish(<<ErrorEvent(task_id, "none"),
                              CompletionEvent(task_id, FALSE)>>)
    /\ pc' = "cleanup"
    /\ UNCHANGED <<response, course_id, chapters_list, idx, structure_result,
                   content_results, llm_calls>>

\* finally: the executor is shut down and the session closed
Cleanup ==
    /\ UNCHANGED outside_run
    /\ resources' = [resources EXCEPT !.thread_executor = "shutdown", !.db = "closed"]
    /\ pc = "cleanup"
    /\ pc' = "done"
    /\ sess' = EmptyStore
    /\ chapters_list' = <<>>
    /\ content_results' = <<>>
    /\ UNCHANGED <<store, sess_inactive, events, response, course_id, idx,
                   structure_result, path, llm_calls>>

Next ==
    \/ GenerateCourse
    \/ DeleteCourse
    \/ Initialize
    \/ Prepare
    \/ Introduction
    \/ Objectives
    \/ Structure
    \/ ChapterBegin
    \/ ChapterEnd
    \/ Finalize
    \/ Handler
    \/ Cleanup

(* ============== ConnectionManager (api/v1/websocket.py) ================ *)

MaxConns == 2
MaxEvents == 2

Conns == 1..MaxConns
\* the task ids subscribed and published to: those of one run
ChannelTasks == {TaskId(2)}

\* a WebSocket that has not reached the endpoint yet
NewConn ==
    [client_state |-> "CONNECTING", peer_open |-> TRUE, task_id |-> "none",
     handler |-> "none", inbox |-> <<>>, attached_at |-> 0,
     unsubscribed |-> FALSE]

NoBroadcast ==
    [pc |-> "idle", task_id |-> "none", event |-> 0, targets |-> {},
     visited |-> {}, current |-> 0, disconnected |-> {}]

\* what a step of the ConnectionManager leaves alone
outside_channel == <<vars, llm_vars, doc_vars, store_vars>>

ChannelInit ==
    /\ active_connections = <<>>
    /\ conns = [ws \in Conns |-> NewConn]
    /\ bc = NoBroadcast
    /\ events_published = 0
    /\ chan_raised = "none"

\* dict assignment and del
DictSet(d, k, v) == [x \in DOMAIN d \cup {k} |-> IF x = k THEN v ELSE d[x]]
DictDel(d, k) == [x \in DOMAIN d \ {k} |-> d[x]]

\* ConnectionManager.connect: create the task's set when missing, add
Registered(d, ws, t) ==
    DictSet(d, t, (IF t \in DOMAIN d THEN d[t] ELSE {}) \cup {ws})

\* ConnectionManager.disconnect: discard, and drop the key of an empty set
Unregistered(d, ws, t) ==
    IF t \notin DOMAIN d THEN d
    ELSE IF d[t] \ {ws} = {} THEN DictDel(d, t)
    ELSE DictSet(d, t, d[t] \ {ws})

\* the connections one broadcast iterates over: the copy of the task's set
\* taken before the loop
SendTargets_Live(d, t, copy) == IF t \in DOMAIN d THEN d[t] ELSE {}
SendTargets(d, t, copy) == copy

\* the loop visits each element of the copy once
AfterVisit_Again(visited, ws) == visited
AfterVisit(visited, ws) == visited \cup {ws}

\* the connections the loop of the broadcast in progress has yet to visit
Remaining == SendTargets(active_connections, bc.task_id, bc.targets) \ bc.visited

\* websocket_course_generation up to its loop: manager.connect accepts the
\* socket and registers it; a failed accept leaves the endpoint at once.
\* Connections are numbered in the order they arrive.
connect(ws, t) ==
    /\ UNCHANGED outside_channel
    /\ conns[ws].handler = "none"
    /\ \A earlier \in 1..(ws - 1) : conns[earlier].handler /= "none"
    /\ \E accepted \in BOOLEAN :
        IF accepted
        THEN /\ conns' = [conns EXCEPT ![ws].client_state = "CONNECTED",
                                       ![ws].task_id = t,
                                       ![ws].handler = "open",
                                       ![ws].attached_at = events_published]
             /\ active_connections' = Registered(active_connections, ws, t)
        ELSE /\ conns' = [conns EXCEPT ![ws].client_state = "DISCONNECTED",
                                       ![ws].peer_open = FALSE,
                                       ![ws].task_id = t,
                                       ![ws].handler = "ended"]
             /\ active_connections' = active_connections
    /\ UNCHANGED <<bc, events_published, chan_raised>>

\* manager.connect for a connection that is registered already
connect_again(ws) ==
    /\ UNCHANGED outside_channel
    /\ conns[ws].handler = "open"
    /\ conns[ws].client_state = "CONNECTED"
    /\ ~conns[ws].unsubscribed
    /\ active_connections' = Registered(active_connections, ws, conns[ws].task_id)
    /\ UNCHANGED <<conns, bc, events_published, chan_raised>>

\* the peer closes or loses the connection
ClientClose(ws) ==
    /\ UNCHANGED outside_channel
    /\ conns[ws].client_state = "CONNECTED"
    /\ conns[ws].peer_open
    /\ conns' = [conns EXCEPT ![ws].peer_open = FALSE]
    /\ UNCHANGED <<active_connections, bc, events_published, chan_raised>>

\* one turn of the endpoint's loop: a timeout or a ping keeps it going; a
\* disconnect raised by the receive is caught by the inner handler, which
\* leaves the loop, and the endpoint returns
websocket_course_generation(ws) ==
    /\ UNCHANGED outside_channel
    /\ conns[ws].handler = "open"
    /\ IF conns[ws].peer_open
       THEN conns' = conns
       ELSE conns' = [conns EXCEPT ![ws].client_state = "DISCONNECTED",
                                   ![ws].handler = "ended"]
    /\ UNCHANGED <<active_connections, bc, events_published, chan_raised>>

\* ConnectionManager.disconnect
disconnect(ws) ==
    /\ UNCHANGED outside_channel
    /\ conns[ws].task_id /= "none"
    /\ active_connections' =
           Unregistered(active_connections, ws, conns[ws].task_id)
    /\ conns' = [conns EXCEPT ![ws].unsubscribed = TRUE]
    /\ UNCHANGED <<bc, events_published, chan_raised>>

\* broadcast_to_task up to its loop: nothing to do for an unknown task id,
\* otherwise iterate over a copy of the task's set
BroadcastBegin(t) ==
    /\ UNCHANGED outside_channel
    /\ bc.pc = "idle"
    /\ events_published < MaxEvents
    /\ events_published' = events_published + 1
    /\ chan_raised' = "none"
    /\ IF t \notin DOMAIN active_connections
       THEN bc' = NoBroadcast
       ELSE bc' = [pc |-> "loop", task_id |-> t, event |-> events_published + 1,
                   targets |-> active_connections[t], visited |-> {},
                   current |-> 0, disconnected |-> {}]
    /\ UNCHANGED <<active_connections, conns>>

\* one iteration up to the send: a connection that is not CONNECTED is
\* collected, for the others the send is awaited
BroadcastNext ==
    /\ UNCHANGED outside_channel
    /\ bc.pc = "loop"
    /\ \E ws \in Remaining :
        IF conns[ws].client_state = "CONNECTED"
        THEN bc' = [bc EXCEPT !.pc = "send", !.current = ws]
        ELSE bc' = [bc EXCEPT !.visited = AfterVisit(bc.visited, ws),
                              !.disconnected = @ \cup {ws}]
    /\ UNCHANGED <<active_connections, conns, events_published, chan_raised>>

\* the awaited send_text ends: the text reaches an open peer, and the send
\* raises for a closed one, which is collected
BroadcastSend ==
    /\ UNCHANGED outside_channel
    /\ bc.pc = "send"
    /\ IF conns[bc.current].peer_open
       THEN /\ conns' = [conns EXCEPT ![bc.current].inbox = Append(@, bc.event)]
            /\ bc' = [bc EXCEPT !.pc = "loop", !.current = 0,
                                !.visited = AfterVisit(bc.visited, bc.current)]
       ELSE /\ conns' = conns
            /\ bc' = [bc EXCEPT !.pc = "loop", !.current = 0,
                                !.visited = AfterVisit(bc.visited, bc.current),
                                !.disconnected = @ \cup {bc.current}]
    /\ UNCHANGED <<active_connections, events_published, chan_raised>>

\* after the loop: the collected connections are discarded from the task's
\* set, which is looked up again by its key
BroadcastPrune ==
    /\ UNCHANGED outside_channel
    /\ bc.pc = "loop"
    /\ Remaining = {}
    /\ bc' = NoBroadcast
    /\ IF bc.disconnected = {}
       THEN UNCHANGED <<active_connections, chan_raised>>
       ELSE IF bc.task_id \notin DOMAIN active_connections
       THEN /\ chan_raised' = "KeyError"
            /\ active_connections' = active_connections
       ELSE /\ active_connections' =
                   DictSet(active_connections, bc.task_id,
                           active_connections[bc.task_id] \ bc.disconnected)
            /\ chan_raised' = chan_raised
    /\ UNCHANGED <<conns, events_published>>

ChannelNext ==
    \/ \E ws \in Conns, t \in ChannelTasks : connect(ws, t)
    \/ \E ws \in Conns : connect_again(ws)
    \/ \E ws \in Conns : ClientClose(ws)
    \/ \E ws \in Conns : websocket_course_generation(ws)
    \/ \E ws \in Conns : disconnect(ws)
    \/ \E t \in ChannelTasks : BroadcastBegin(t)
    \/ BroadcastNext
    \/ BroadcastSend
    \/ BroadcastPrune

(* ================ LLMService, one stage call step by step ============== *)

initial_delay == 1

Stages == {"introduction", "objectives", "structure", "content"}
AttemptOutcomes == {"ok", "exception", "short"}

\* the service is scripted one attempt further than the retry loop goes
ScriptedAttempts == max_retries + 2

ServiceBehaviours ==
    { LLMBehaviour(attempts, parse, fix_ok) :
        attempts \in [1..ScriptedAttempts -> AttemptOutcomes],
        parse \in {"valid", "comma", "malformed"},
        fix_ok \in BOOLEAN }

RECURSIVE Pow2(_)
Pow2(n) == IF n = 0 THEN 1 ELSE 2 * Pow2(n - 1)

\* delay = initial_delay * (2 ** attempt), attempt counted from 0
Backoff_Linear(attempt) == initial_delay * (attempt + 1)
Backoff(attempt) == initial_delay * Pow2(attempt)

\* the texts a successful attempt may return, and what a parser makes of
\* a text: the object written in it
ResponseTexts == {"text_a", "text_b"}
Parsed(text) == [object_of |-> text]
NoOutput == [object_of |-> "none"]

\* OutputFixingParser asks the model again: its output is the object of
\* whatever text that second call returns
FixOutputs == {Parsed("fix_a"), Parsed("fix_b")}

\* parser.parse(result.content) accepts the text as it is
DirectParseOk_Never(parse) == FALSE
DirectParseOk(parse) == parse = "valid"

\* the first pass over a text, kept while the same text is parsed again
NoPass == [tried |-> <<>>, output |-> NoOutput, success |-> FALSE]

\* what a stage function hands back: a record, or an exception that left it
NoResult == [kind |-> "none", success |-> FALSE, data |-> "none", error |-> "none"]
SuccessRecord == [kind |-> "record", success |-> TRUE, data |-> "parsed", error |-> "none"]
FailureRecord(error) == [kind |-> "record", success |-> FALSE, data |-> "none", error |-> error]
Propagated(error) == [kind |-> "exception", success |-> FALSE, data |-> "none", error |-> error]

\* the loop of _retry_llm_call goes on after a failed attempt while
\* attempt < max_retries, attempt counted from 0
MayRetry_OnceMore(attempt) == attempt < max_retries + 1
MayRetry(attempt) == attempt < max_retries

\* the stage function's own "except Exception as e": a failure record
OnException_Reraise(error) == Propagated(error)
OnException(error) == FailureRecord(error)

LLMInit ==
    \E stage \in Stages, llm \in ServiceBehaviours :
        call = [stage |-> stage, llm |-> llm, pc |-> "retry", attempt |-> 0,
                attempts_made |-> 0, slept |-> <<>>, tried |-> <<>>,
                raised |-> "none", result |-> NoResult,
                text |-> "none", output |-> NoOutput, pass |-> 1,
                first |-> NoPass]

\* what a step of a stage call leaves alone
outside_llm == <<vars, chan_vars, doc_vars, store_vars>>

\* one iteration of the loop of _retry_llm_call
Attempt ==
    /\ UNCHANGED outside_llm
    /\ call.pc = "retry"
    /\ LET outcome == call.llm.attempts[call.attempt + 1]
           made == [call EXCEPT !.attempts_made = @ + 1]
       IN  IF outcome = "ok"
           THEN \E text \in ResponseTexts :
                    call' = [made EXCEPT !.pc = "parse", !.text = text]
           ELSE IF MayRetry(call.attempt)
           THEN call' = [made EXCEPT
                            !.slept = Append(@, Backoff(call.attempt)),
                            !.attempt = @ + 1]
           ELSE call' = [made EXCEPT !.pc = "except",
                                     !.raised = "LLMMaxRetriesExceededError"]

\* the first parse of the returned text: parser.parse, the parse inside
\* OutputFixingParser (structure), or re.search + json.loads (content)
ParseResponse ==
    /\ UNCHANGED outside_llm
    /\ call.pc = "parse"
    /\ LET tried == [call EXCEPT !.tried = Append(@, "direct")]
       IN  IF DirectParseOk(call.llm.parse)
           THEN call' = [tried EXCEPT !.pc = "returned", !.result = SuccessRecord,
                                      !.output = Parsed(call.text)]
           ELSE IF call.stage \in {"introduction", "objectives"}
           THEN call' = [tried EXCEPT !.pc = "regex"]
           ELSE IF call.stage = "structure"
           THEN call' = [tried EXCEPT !.pc = "fix"]
           ELSE call' = [tried EXCEPT !.pc = "returned",
                                      !.result = FailureRecord("Failed to parse response")]

\* the missing-comma re.sub and a second parser.parse
RegexRepair ==
    /\ UNCHANGED outside_llm
    /\ call.pc = "regex"
    /\ LET tried == [call EXCEPT !.tried = Append(@, "regex")]
       IN  IF call.llm.parse = "comma"
           THEN call' = [tried EXCEPT !.pc = "returned", !.result = SuccessRecord,
                                      !.output = Parsed(call.text)]
           ELSE call' = [tried EXCEPT !.pc = "fix"]

\* the OutputFixingParser round trip
FixingParser ==
    /\ UNCHANGED outside_llm
    /\ call.pc = "fix"
    /\ LET tried == [call EXCEPT !.tried = Append(@, "fix")]
       IN  IF call.llm.fix_ok
           THEN \E output \in FixOutputs :
                    call' = [tried EXCEPT !.pc = "returned",
                                          !.result = SuccessRecord,
                                          !.output = output]
           ELSE call' = [tried EXCEPT !.pc = "except",
                                      !.raised = "OutputParserException"]

\* an exception raised inside the stage function reaches its except clause
StageExcept ==
    /\ UNCHANGED outside_llm
    /\ call.pc = "except"
    /\ call' = [call EXCEPT !.pc = "returned", !.result = OnException(call.raised)]

\* the stage's parse steps applied once more to the text already parsed
ParseAgain ==
    /\ UNCHANGED outside_llm
    /\ call.pc = "returned"
    /\ call.pass = 1
    /\ call.tried /= <<>>
    /\ call' = [call EXCEPT
                   !.pc = "parse", !.pass = 2,
                   !.first = [tried |-> call.tried, output |-> call.output,
                              success |-> call.result.success],
                   !.tried = <<>>, !.output = NoOutput, !.raised = "none",
                   !.result = NoResult]

LLMNext ==
    \/ Attempt
    \/ ParseResponse
    \/ RegexRepair
    \/ FixingParser
    \/ StageExcept
    \/ ParseAgain

(* ================= documents (api/v1/endpoints/documents.py) =========== *)

MaxInFlight == 2
doc_max_retries == 3

DocIds == {1, 2}

\* a row of the documents table; row is "none" before the id is given out,
\* "stored" while the record exists and "removed" after a hard delete
NoDocument ==
    [row |-> "none", status |-> "none", error_message |-> "none",
     retry_count |-> 0, max_retries |-> doc_max_retries,
     is_deleted |-> FALSE, was_soft_deleted |-> FALSE, file |-> "none"]
\* the file is written under UPLOAD_DIR before the record is created
NewDocument ==
    [NoDocument EXCEPT !.row = "stored", !.status = "uploaded",
                       !.file = "written"]

NoDocResponse == [op |-> "none", code |-> 0]
DocResponse(op, code) == [op |-> op, code |-> code]

DocInit ==
    /\ docs = [id \in DocIds |-> NoDocument]
    /\ doc_tasks = [id \in DocIds |-> [queued |-> 0, running |-> 0]]
    /\ doc_response = NoDocResponse

\* what a step on the documents leaves alone
outside_docs == <<vars, chan_vars, llm_vars, store_vars>>

InFlight(id) == doc_tasks[id].queued + doc_tasks[id].running

\* the lookup of get, delete and retry:
\* filter(Document.id == document_id, Document.is_deleted.is_(False)).first()
Found_AnyRow(id) == docs[id].row = "stored"
Found(id) == docs[id].row = "stored" /\ ~docs[id].is_deleted

\* Document.can_retry
can_retry_AnyStatus(document) == document.retry_count < document.max_retries
can_retry(document) ==
    document.status = "failed" /\ document.retry_count < document.max_retries

\* list_documents: the ids of the rows with is_deleted false
list_documents_result == {id \in DocIds : docs[id].row = "stored" /\ ~docs[id].is_deleted}

get_document_code(id) == IF Found(id) THEN 200 ELSE 404

retry_code(id) ==
    IF ~Found(id) THEN 404
    ELSE IF ~can_retry(docs[id]) THEN 400
    ELSE 200

\* background_tasks.add_task(process_document_task, ...)
AddTask(tasks, id) == [tasks EXCEPT ![id].queued = @ + 1]

\* settings.MAX_UPLOAD_SIZE = 10 * 1024 * 1024
MAX_UPLOAD_SIZE == 10485760

\* settings.ALLOWED_EXTENSIONS
ALLOWED_EXTENSIONS == {"pdf", "docx", "doc", "xlsx", "xls", "txt", "md"}

\* the uploads a client may send: a filename, as its characters, and the
\* length of the content
UploadFiles ==
    [filename : {<<"a", ".", "p", "d", "f">>,
                 <<"a", ".", "P", "D", "F">>,
                 <<"a", ".", "e", "x", "e">>,
                 <<"p", "d", "f", ".", "e", "x", "e">>,
                 <<"a", ".", "e", "x", "e", ".", "m", "d">>,
                 <<"p", "d", "f">>,
                 <<"a", ".">>},
     size : {0, MAX_UPLOAD_SIZE, MAX_UPLOAD_SIZE + 1}]

file_extension_FirstPart(filename) ==
    LET dots == {i \in 1..Len(filename) : filename[i] = "."}
        stop == IF dots = {} THEN Len(filename)
                ELSE (CHOOSE i \in dots : \A j \in dots : i <= j) - 1
        RECURSIVE join(_)
        join(i) == IF i > stop THEN "" ELSE filename[i] \o join(i + 1)
    IN  join(1)

\* file_extension = file.filename.split('.')[-1].lower()
file_extension(filename) ==
    LET dots == {i \in 1..Len(filename) : filename[i] = "."}
        start == IF dots = {} THEN 1
                 ELSE (CHOOSE i \in dots : \A j \in dots : j <= i) + 1
        upper == <<"A", "B", "C", "D", "E", "F", "G", "H", "I", "J", "K", "L",
                   "M", "N", "O", "P", "Q", "R", "S", "T", "U", "V", "W", "X",
                   "Y", "Z">>
        lower == <<"a", "b", "c", "d", "e", "f", "g", "h", "i", "j", "k", "l",
                   "m", "n", "o", "p", "q", "r", "s", "t", "u", "v", "w", "x",
                   "y", "z">>
        low(ch) == IF \E k \in 1..26 : upper[k] = ch
                   THEN lower[CHOOSE k \in 1..26 : upper[k] = ch]
                   ELSE ch
        RECURSIVE join(_)
        join(i) == IF i > Len(filename) THEN ""
                   ELSE low(filename[i]) \o join(i + 1)
    IN  join(start)

\* upload_document: the extension, then the size, are validated before
\* anything is written; then the file is saved, the record is committed with
\* status uploaded and one processing task is scheduled
upload_document(id, file) ==
    /\ UNCHANGED outside_docs
    /\ docs[id].row = "none"
    /\ \A earlier \in DocIds : earlier < id => docs[earlier].row /= "none"
    /\ IF file_extension(file.filename) \notin ALLOWED_EXTENSIONS
       THEN /\ doc_response' = DocResponse("upload", 400)
            /\ UNCHANGED <<docs, doc_tasks>>
       ELSE IF file.size > MAX_UPLOAD_SIZE
       THEN /\ doc_response' = DocResponse("upload", 400)
            /\ UNCHANGED <<docs, doc_tasks>>
       ELSE /\ docs' = [docs EXCEPT ![id] = NewDocument]
            /\ doc_tasks' = AddTask(doc_tasks, id)
            /\ doc_response' = DocResponse("upload", 200)

\* process_document_task up to its first commit: the lookup is by id only
ProcessStart(id) ==
    /\ UNCHANGED outside_docs
    /\ doc_tasks[id].queued > 0
    /\ IF docs[id].row = "stored"
       THEN /\ docs' = [docs EXCEPT ![id].status = "processing"]
            /\ doc_tasks' = [doc_tasks EXCEPT ![id].queued = @ - 1,
                                              ![id].running = @ + 1]
       ELSE /\ docs' = docs
            /\ doc_tasks' = [doc_tasks EXCEPT ![id].queued = @ - 1]
    /\ UNCHANGED doc_response

\* process_document_task from the processor's result to its last commit;
\* for a record removed meanwhile the writes fail and the task ends
ProcessFinish(id, success) ==
    /\ UNCHANGED outside_docs
    /\ doc_tasks[id].running > 0
    /\ doc_tasks' = [doc_tasks EXCEPT ![id].running = @ - 1]
    /\ IF docs[id].row /= "stored"
       THEN docs' = docs
       ELSE IF success
       THEN docs' = [docs EXCEPT ![id].status = "processed"]
       ELSE docs' = [docs EXCEPT ![id].status = "failed",
                                 ![id].error_message = "set",
                                 ![id].retry_count = @ + 1]
    /\ UNCHANGED doc_response

list_documents ==
    /\ UNCHANGED outside_docs
    /\ doc_response' = DocResponse("list", 200)
    /\ UNCHANGED <<docs, doc_tasks>>

get_document(id) ==
    /\ UNCHANGED outside_docs
    /\ doc_response' = DocResponse("get", get_document_code(id))
    /\ UNCHANGED <<docs, doc_tasks>>

\* delete_document: 404 unless the lookup finds the record; with force the
\* record is removed, without it is_deleted is set
delete_document(id, force) ==
    /\ UNCHANGED outside_docs
    /\ IF ~Found(id)
       THEN /\ doc_response' = DocResponse("delete", 404)
            /\ docs' = docs
       ELSE /\ doc_response' = DocResponse("delete", 200)
            /\ IF force
               THEN docs' = [docs EXCEPT ![id].row = "removed",
                                         ![id].file = "removed"]
               ELSE docs' = [docs EXCEPT ![id].is_deleted = TRUE,
                                         ![id].was_soft_deleted = TRUE]
    /\ UNCHANGED doc_tasks

\* retry_document_processing
retry_document_processing(id) ==
    /\ UNCHANGED outside_docs
    /\ InFlight(id) < MaxInFlight
    /\ doc_response' = DocResponse("retry", retry_code(id))
    /\ IF retry_code(id) = 200
       THEN /\ docs' = [docs EXCEPT ![id].status = "uploaded",
                                    ![id].error_message = "none"]
            /\ doc_tasks' = AddTask(doc_tasks, id)
       ELSE UNCHANGED <<docs, doc_tasks>>

\* cleanup_timeout_documents: the processing, not deleted records started
\* more than 30 minutes ago (timed_out, any of them) are marked failed
cleanup_timeout_documents(timed_out) ==
    /\ UNCHANGED outside_docs
    /\ \A id \in timed_out :
          docs[id].row = "stored" /\ docs[id].status = "processing"
             /\ ~docs[id].is_deleted
    /\ docs' = [id \in DocIds |->
                  IF id \in timed_out
                  THEN [docs[id] EXCEPT !.status = "failed",
                                        !.error_message = "set"]
                  ELSE docs[id]]
    /\ doc_response' = DocResponse("cleanup", 200)
    /\ UNCHANGED doc_tasks

DocNext ==
    \/ \E id \in DocIds, file \in UploadFiles : upload_document(id, file)
    \/ \E id \in DocIds : ProcessStart(id)
    \/ \E id \in DocIds, success \in BOOLEAN : ProcessFinish(id, success)
    \/ list_documents
    \/ \E id \in DocIds : get_document(id)
    \/ \E id \in DocIds, force \in BOOLEAN : delete_document(id, force)
    \/ \E id \in DocIds : retry_document_processing(id)
    \/ \E timed_out \in SUBSET DocIds : cleanup_timeout_documents(timed_out)

(* ======== the course store: requests and runs of several courses ======== *)

MaxTreeChapters == 2
MaxTreeSections == 10
MaxRequests == 2

\* characters of a dotted key, by code point: "." and "0".."9"
DotChar == 46
ZeroChar == 48

\* str(n), as the sequence of its characters
RECURSIVE Str(_)
Str(n) == IF n < 10 THEN <<ZeroChar + n>>
          ELSE Append(Str(n \div 10), ZeroChar + (n % 10))

\* f"{a}.{b}" and f"{a}.{b}.{c}"
RECURSIVE Dotted(_)
Dotted(parts) ==
    IF Len(parts) = 1 THEN Str(parts[1])
    ELSE Str(parts[1]) \o <<DotChar>> \o Dotted(Tail(parts))

\* a < b on Python strings: by code point, a proper prefix first
RECURSIVE StrLess(_, _)
StrLess(a, b) ==
    IF a = <<>> THEN b /= <<>>
    ELSE IF b = <<>> THEN FALSE
    ELSE IF Head(a) /= Head(b) THEN Head(a) < Head(b)
    ELSE StrLess(Tail(a), Tail(b))

\* sorted(rows, key=lambda x: x.<key>): the integer chapter_number is
\* compared as a number, the strings section_number and point_id character
\* by character; ties stay in load order (id)
Sorted(rows, key) ==
    LET Before(x, y) ==
            IF key = "chapter_number" THEN x[key] < y[key]
            ELSE StrLess(x[key], y[key])
    IN  [i \in 1..Cardinality(rows) |->
            CHOOSE r \in rows :
                Cardinality({x \in rows :
                    \/ Before(x, r)
                    \/ ~Before(r, x) /\ x.id < r.id}) = i - 1]

\* what the service answers for a course: a skeleton of so many chapters,
\* and per chapter ns section descriptors, the first of which may lack a
\* field; the first descriptor carries one knowledge point
TreeScripts ==
    [chapters : 1..MaxTreeChapters, ns : {1}, lacking : {"none"}]
      \cup [chapters : {1}, ns : {MaxTreeSections}, lacking : {"none"}]
      \cup [chapters : {1}, ns : {1}, lacking : {"title", "knowledge_points"}]

Without(descriptor, field) ==
    [f \in DOMAIN descriptor \ {field} |-> descriptor[f]]

SectionDescriptors(script) ==
    LET full(i) ==
            [title |-> "T", content |-> "C",
             knowledge_points |->
                 IF i = 1 THEN << [title |-> "K", description |-> "D"] >>
                 ELSE <<>>]
    IN  [i \in 1..script.ns |->
            IF i = 1 /\ script.lacking /= "none"
            THEN Without(full(i), script.lacking)
            ELSE full(i)]

\* SimpleChapterContent(**parsed_data): every field of SimpleSection and of
\* SimpleKnowledgePoint is required
SimpleChapterContent(sections) ==
    \A i \in 1..Len(sections) :
        /\ {"title", "content", "knowledge_points"} \subseteq DOMAIN sections[i]
        /\ \A j \in 1..Len(sections[i].knowledge_points) :
              {"title", "description"} \subseteq DOMAIN sections[i].knowledge_points[j]

\* dict.get(key, default)
Get(d, key, default) == IF key \in DOMAIN d THEN d[key] ELSE default

NoRow == [exists |-> FALSE, status |-> "none", title |-> "none"]
Reply(op, code, body) == [op |-> op, code |-> code, body |-> body]

TreeTasks == {"task-" \o ToString(c) : c \in CourseIds}

StoreParked ==
    /\ tables = [courses |-> [c \in CourseIds |-> NoRow], chapters |-> {},
                 sections |-> {}, points |-> {},
                 next |-> [chapter |-> 1, section |-> 1, point |-> 1]]
    /\ runs \in [CourseIds -> [pc : {"none"}, outcome : {"none"},
                               script : {[chapters |-> 1, ns |-> 1, lacking |-> "none"]},
                               chapter_ids : {<<>>}, content_failed : {{}}]]
    /\ inboxes = [t \in TreeTasks |-> <<>>]
    /\ reply = Reply("none", 0, <<>>)
    /\ requests = 0

StoreInit ==
    /\ tables = [courses |-> [c \in CourseIds |-> NoRow], chapters |-> {},
                 sections |-> {}, points |-> {},
                 next |-> [chapter |-> 1, section |-> 1, point |-> 1]]
    /\ runs \in [CourseIds -> [pc : {"none"}, outcome : {"none"},
                               script : TreeScripts,
                               chapter_ids : {<<>>}, content_failed : {{}}]]
    /\ inboxes = [t \in TreeTasks |-> <<>>]
    /\ reply = Reply("none", 0, <<>>)
    /\ requests = 0

Broadcast_ToAll(boxes, c, type) ==
    [t \in DOMAIN boxes |->
        Append(boxes[t], [type |-> type, task_id |-> TaskId(c), course_id |-> c])]

\* manager.broadcast_to_task(update, task_id): to the subscribers of task_id
Broadcast(boxes, c, type) ==
    [boxes EXCEPT ![TaskId(c)] =
        Append(@, [type |-> type, task_id |-> TaskId(c), course_id |-> c])]

\* db.query(Chapter).filter(Chapter.id == chapter_id,
\*                          Chapter.course_id == course_id).first()
FindChapter_AnyCourse(c, ch) == {r \in tables.chapters : r.id = ch}
FindChapter(c, ch) == {r \in tables.chapters : r.id = ch /\ r.course_id = c}
FindSection(ch, s) == {r \in tables.sections : r.id = s /\ r.chapter_id = ch}
FindPoint(s, p) == {r \in tables.points : r.id = p /\ r.section_id = s}

\* the rows that go with a course: cascade="all, delete-orphan" on
\* Course.chapters, Chapter.sections and Section.knowledge_points
ChaptersOf(t, c) == {r \in t.chapters : r.course_id = c}
SectionsUnder(t, chs) == {r \in t.sections : r.chapter_id \in {x.id : x \in chs}}
PointsUnder(t, secs) == {r \in t.points : r.section_id \in {x.id : x \in secs}}

Cascade_ChaptersOnly(t, c) ==
    [t EXCEPT !.courses[c] = NoRow, !.chapters = @ \ ChaptersOf(t, c)]
Cascade(t, c) ==
    [t EXCEPT !.courses[c] = NoRow,
              !.chapters = @ \ ChaptersOf(t, c),
              !.sections = @ \ SectionsUnder(t, ChaptersOf(t, c)),
              !.points = @ \ PointsUnder(t, SectionsUnder(t, ChaptersOf(t, c)))]

\* the assignments of an update handler: the editable fields only
Edited_Renumbered(row, data) ==
    IF "chapter_number" \in DOMAIN row
    THEN [row EXCEPT !.title = data.title, !.chapter_number = @ + 1]
    ELSE [row EXCEPT !.title = data.title]
Edited(row, data) == [row EXCEPT !.title = data.title]

EditPayloads == {[title |-> "edited"]}

\* generate_course: the course row, status published, and its run submitted;
\* course ids are handed out in increasing order
generate_course(c) ==
    /\ UNCHANGED outside_store
    /\ runs[c].pc = "none"
    /\ \A earlier \in CourseIds : earlier < c => runs[earlier].pc /= "none"
    /\ tables' = [tables EXCEPT !.courses[c] =
                     [exists |-> TRUE, status |-> "published", title |-> "T"]]
    /\ runs' = [runs EXCEPT ![c].pc = "submitted"]
    /\ reply' = Reply("generate", 200, <<c, TaskId(c)>>)
    /\ UNCHANGED <<inboxes, requests>>

\* the run of course c up to its lookup
RunLookup(c) ==
    /\ UNCHANGED outside_store
    /\ runs[c].pc = "submitted"
    /\ IF tables.courses[c].exists
       THEN /\ runs' = [runs EXCEPT ![c].pc = "skeleton"]
            /\ inboxes' = Broadcast(inboxes, c, "progress")
       ELSE /\ runs' = [runs EXCEPT ![c].pc = "done", ![c].outcome = "not_found"]
            /\ inboxes' = Broadcast(inboxes, c, "error")
    /\ UNCHANGED <<tables, reply, requests>>

\* the run of course c, from the lookup to the commit of its chapters; for a
\* course deleted meanwhile the commit raises and the run ends in its handler
RunSkeleton(c) ==
    /\ UNCHANGED outside_store
    /\ runs[c].pc = "skeleton"
    /\ IF tables.courses[c].exists
       THEN LET k == runs[c].script.chapters
                base == tables.next.chapter
                rows == {[id |-> base + i - 1, course_id |-> c,
                          chapter_number |-> i, title |-> "T"] : i \in 1..k}
            IN /\ tables' = [tables EXCEPT !.chapters = @ \cup rows,
                                           !.next.chapter = @ + k]
               /\ runs' = [runs EXCEPT ![c].pc = "content",
                              ![c].chapter_ids = [i \in 1..k |-> base + i - 1]]
               /\ inboxes' = Broadcast(inboxes, c, "progress")
       ELSE /\ runs' = [runs EXCEPT ![c].pc = "done", ![c].outcome = "raised"]
            /\ inboxes' = Broadcast(inboxes, c, "error")
            /\ UNCHANGED tables
    /\ UNCHANGED <<reply, requests>>

\* the Section rows of the i-th chapter of a run (chapter_number i, row id
\* chapter_id), section ids from base on
SectionRows(chapter_id, i, sections_data, base) ==
    {[id |-> base + n - 1, chapter_id |-> chapter_id,
      section_number |-> Dotted(<<i, n>>),
      title |-> Get(sections_data[n], "title", "")] : n \in 1..Len(sections_data)}

PointRows(i, sections_data, section_base, point_base) ==
    {[id |-> point_base, section_id |-> section_base + n - 1,
      point_id |-> Dotted(<<i, n, 1>>),
      title |-> Get(Get(sections_data[n], "knowledge_points", <<>>)[1], "title", "")] :
        n \in {m \in 1..Len(sections_data) :
                 Get(sections_data[m], "knowledge_points", <<>>) /= <<>>}}

FallbackSection(chapter_id, i, base) ==
    {[id |-> base, chapter_id |-> chapter_id, section_number |-> Dotted(<<i, 1>>),
      title |-> "PlaceholderOverview"]}

\* the run of course c, from the content loop to its last commit: per
\* chapter the validated descriptors become rows, or the fallback section
\* does; all of it is committed at the end, with status published
RunContent(c) ==
    /\ UNCHANGED outside_store
    /\ runs[c].pc = "content"
    /\ IF tables.courses[c].exists
       THEN LET sections_data == SectionDescriptors(runs[c].script)
                ok == SimpleChapterContent(sections_data)
                per == IF ok THEN Len(sections_data) ELSE 1
                k == Len(runs[c].chapter_ids)
                sbase(i) == tables.next.section + (i - 1) * per
                pbase(i) == tables.next.point + (i - 1)
                secs == UNION {IF ok
                               THEN SectionRows(runs[c].chapter_ids[i], i,
                                                sections_data, sbase(i))
                               ELSE FallbackSection(runs[c].chapter_ids[i], i,
                                                    sbase(i)) : i \in 1..k}
                pts == UNION {IF ok
                              THEN PointRows(i, sections_data, sbase(i), pbase(i))
                              ELSE {} : i \in 1..k}
            IN /\ tables' = [tables EXCEPT
                                !.sections = @ \cup secs,
                                !.points = @ \cup pts,
                                !.next.section = @ + k * per,
                                !.next.point = @ + k,
                                !.courses[c].status = "published"]
               /\ runs' = [runs EXCEPT ![c].pc = "done", ![c].outcome = "completed",
                              ![c].content_failed =
                                  IF ok THEN {} ELSE Range(runs[c].chapter_ids)]
               /\ inboxes' = Broadcast(inboxes, c, "completion")
       ELSE /\ runs' = [runs EXCEPT ![c].pc = "done", ![c].outcome = "raised"]
            /\ inboxes' = Broadcast(inboxes, c, "error")
            /\ UNCHANGED tables
    /\ UNCHANGED <<reply, requests>>

\* a request is one of at most MaxRequests
Request == requests < MaxRequests /\ requests' = requests + 1

update_course(c, data) ==
    /\ UNCHANGED outside_store
    /\ Request
    /\ IF ~tables.courses[c].exists
       THEN reply' = Reply("update_course", 404, <<>>) /\ UNCHANGED tables
       ELSE /\ tables' = [tables EXCEPT !.courses[c] = Edited(@, data)]
            /\ reply' = Reply("update_course", 200, <<>>)
    /\ UNCHANGED <<runs, inboxes>>

update_chapter(c, ch, data) ==
    /\ UNCHANGED outside_store
    /\ Request
    /\ IF ~tables.courses[c].exists \/ FindChapter(c, ch) = {}
       THEN reply' = Reply("update_chapter", 404, <<>>) /\ UNCHANGED tables
       ELSE /\ tables' = [tables EXCEPT !.chapters =
                            (@ \ FindChapter(c, ch))
                               \cup {Edited(r, data) : r \in FindChapter(c, ch)}]
            /\ reply' = Reply("update_chapter", 200, <<>>)
    /\ UNCHANGED <<runs, inboxes>>

update_section(c, ch, s, data) ==
    /\ UNCHANGED outside_store
    /\ Request
    /\ IF \/ ~tables.courses[c].exists
          \/ FindChapter(c, ch) = {}
          \/ FindSection(ch, s) = {}
       THEN reply' = Reply("update_section", 404, <<>>) /\ UNCHANGED tables
       ELSE /\ tables' = [tables EXCEPT !.sections =
                            (@ \ FindSection(ch, s))
                               \cup {Edited(r, data) : r \in FindSection(ch, s)}]
            /\ reply' = Reply("update_section", 200, <<>>)
    /\ UNCHANGED <<runs, inboxes>>

update_knowledge_point(c, ch, s, p, data) ==
    /\ UNCHANGED outside_store
    /\ Request
    /\ IF \/ ~tables.courses[c].exists
          \/ FindChapter(c, ch) = {}
          \/ FindSection(ch, s) = {}
          \/ FindPoint(s, p) = {}
       THEN reply' = Reply("update_knowledge_point", 404, <<>>) /\ UNCHANGED tables
       ELSE /\ tables' = [tables EXCEPT !.points =
                            (@ \ FindPoint(s, p))
                               \cup {Edited(r, data) : r \in FindPoint(s, p)}]
            /\ reply' = Reply("update_knowledge_point", 200, <<>>)
    /\ UNCHANGED <<runs, inboxes>>

delete_course(c) ==
    /\ UNCHANGED outside_store
    /\ Request
    /\ IF ~tables.courses[c].exists
       THEN reply' = Reply("delete_course", 404, <<>>) /\ UNCHANGED tables
       ELSE /\ tables' = Cascade(tables, c)
            /\ reply' = Reply("delete_course", 200, <<>>)
    /\ UNCHANGED <<runs, inboxes>>

\* the tree get_course_detail answers with, each level sorted by its key
CourseDetail(c) ==
    LET chs == Sorted(ChaptersOf(tables, c), "chapter_number")
    IN  [i \in 1..Len(chs) |->
           LET secs == Sorted(SectionsUnder(tables, {chs[i]}), "section_number")
           IN  [id |-> chs[i].id, chapter_number |-> chs[i].chapter_number,
                sections |->
                  [n \in 1..Len(secs) |->
                     LET pts == Sorted(PointsUnder(tables, {secs[n]}), "point_id")
                     IN  [id |-> secs[n].id,
                          section_number |-> secs[n].section_number,
                          knowledge_points |->
                             [j \in 1..Len(pts) |->
                                 [id |-> pts[j].id, point_id |-> pts[j].point_id]]]]]]

get_course_detail(c) ==
    /\ UNCHANGED outside_store
    /\ Request
    /\ IF ~tables.courses[c].exists
       THEN reply' = Reply("get_course_detail", 404, <<>>)
       ELSE reply' = Reply("get_course_detail", 200, CourseDetail(c))
    /\ UNCHANGED <<tables, runs, inboxes>>

\* the row ids a request may address
RequestIds == 1..2

StoreNext ==
    \/ \E c \in CourseIds : generate_course(c)
    \/ \E c \in CourseIds : RunLookup(c)
    \/ \E c \in CourseIds : RunSkeleton(c)
    \/ \E c \in CourseIds : RunContent(c)
    \/ \E c \in CourseIds, data \in EditPayloads : update_course(c, data)
    \/ \E c \in CourseIds, ch \in RequestIds, data \in EditPayloads :
          update_chapter(c, ch, data)
    \/ \E c \in CourseIds, ch \in RequestIds, s \in RequestIds,
          data \in EditPayloads : update_section(c, ch, s, data)
    \/ \E c \in CourseIds, ch \in RequestIds, s \in RequestIds,
          p \in RequestIds, data \in EditPayloads :
          update_knowledge_point(c, ch, s, p, data)
    \/ \E c \in CourseIds : delete_course(c)
    \/ \E c \in CourseIds : get_course_detail(c)

(* ========================== specifications ============================= *)

all_vars == <<vars, chan_vars, llm_vars, doc_vars, store_vars>>

\* the subsystems a specification does not step stay in their initial
\* state, with one course id
Parked == Init /\ course_id = 2
CallParked ==
    call = [stage |-> "introduction", llm |-> LLMBehaviour(AllOk, "valid", FALSE),
            pc |-> "returned", attempt |-> 0, attempts_made |-> 1,
            slept |-> <<>>, tried |-> <<"direct">>, raised |-> "none",
            result |-> SuccessRecord,
            text |-> "text_a", output |-> Parsed("text_a"), pass |-> 1,
            first |-> NoPass]

\* the generation run
RunStart == Init /\ ChannelInit /\ CallParked /\ DocInit /\ StoreParked
Spec == RunStart /\ [][Next]_all_vars

\* the generation run on its worker thread: run_until_complete drives the
\* coroutine until it returns, so a step of the run that can be taken is
\* taken; requests (generate_course, delete_course) come when they come
RunStep ==
    \/ Initialize \/ Prepare \/ Introduction \/ Objectives \/ Structure
    \/ ChapterBegin \/ ChapterEnd \/ Finalize \/ Handler \/ Cleanup
SpecLive == RunStart /\ [][Next]_all_vars /\ WF_all_vars(RunStep)

\* the ConnectionManager and its endpoint
ChannelStart == Parked /\ ChannelInit /\ CallParked /\ DocInit /\ StoreParked
SpecChannel == ChannelStart /\ [][ChannelNext]_all_vars

\* one stage call of LLMService
LLMStart == Parked /\ ChannelInit /\ LLMInit /\ DocInit /\ StoreParked
SpecLLM == LLMStart /\ [][LLMNext]_all_vars

\* the document endpoints and their background task
DocStart == Parked /\ ChannelInit /\ CallParked /\ DocInit /\ StoreParked
SpecDocs == DocStart /\ [][DocNext]_all_vars

\* the course store under requests and the runs of two courses
StoreStart == Parked /\ ChannelInit /\ CallParked /\ DocInit /\ StoreInit
SpecStore == StoreStart /\ [][StoreNext]_all_vars

(* ============================ properties =============================== *)

Ended == pc \in {"cleanup", "done"}

\* the run reached its last statement with its local variables still alive
AtEnd == pc = "cleanup" /\ path = "completed"

EventsOfType(t) == SelectSeq(events, LAMBDA e : e.type = t)

Percents == [i \in 1..Len(EventsOfType("progress")) |->
                EventsOfType("progress")[i].percent]

SectionsOf(db, chapter_id) ==
    SelectSeq(db.sections, LAMBDA s : s.chapter_id = chapter_id)

PointsOf(db, section_id) ==
    SelectSeq(db.points, LAMBDA p : p.section_id = section_id)

Titles(rows) == [i \in 1..Len(rows) |-> rows[i].title]

IsPlaceholder(section) ==
    section.title \in {"PlaceholderOverview", "PlaceholderError"}

(* C1: a run that finds its course and in which no exception leaves the *)
(* stage-level guards, whatever stages report failure, ends with status *)
(* published persisted and a completion event with success=true as its  *)
(* last event; status failed is set only by a run that raised.          *)
C1_StageFailuresStillPublish ==
    /\ (Ended /\ path \notin {"not_found", "raised"}) =>
          /\ path = "completed"
          /\ store.course.status = "published"
          /\ events # <<>>
          /\ events[Len(events)] = CompletionEvent(TaskId(course_id), TRUE)
    /\ store.course.status = "failed" => path = "raised"

C1_Witness ==
    /\ pc = "done" /\ path = "completed"
    /\ \A step \in {"introduction", "objectives", "structure"} :
          ErrorEvent(TaskId(course_id), step) \in Range(events)
    /\ \E s \in Range(store.sections) : s.title = "PlaceholderOverview"
    /\ store.course.status = "published"

(* C2: when the skeleton stage reports failure and the run does not raise, *)
(* the course ends with exactly one chapter, numbered 1, the content stage *)
(* was called for it (the fourth stage call), and status is published.  *)
C2_SkeletonFallback ==
    (Ended /\ structure_result = "failure" /\ path # "raised") =>
        /\ path = "completed"
        /\ Len(store.chapters) = 1
        /\ store.chapters[1].chapter_number = 1
        /\ llm_calls = 4
        /\ store.course.status = "published"

C2_Witness ==
    /\ pc = "done" /\ path = "completed" /\ structure_result = "failure"
    /\ Len(store.chapters) = 1
    /\ SectionsOf(store, store.chapters[1].id) # <<>>

(* C3: at the end of a completed run every chapter was processed; a     *)
(* chapter whose content stage failed has exactly one placeholder section *)
(* "{chapter_number}.1" without knowledge points, and any other chapter *)
(* has exactly the sections and knowledge points of its own response.   *)
C3_LocalRecovery ==
    AtEnd =>
      /\ Len(content_results) = Len(chapters_list)
      /\ \A k \in 1..Len(chapters_list) :
           LET chapter == ChapterById(store, chapters_list[k])
               rows == SectionsOf(store, chapter.id)
               result == content_results[k]
           IN  IF ~result.success
               THEN /\ Len(rows) = 1
                    /\ rows[1].title = "PlaceholderOverview"
                    /\ rows[1].section_number =
                          ToString(chapter.chapter_number) \o ".1"
                    /\ PointsOf(store, rows[1].id) = <<>>
               ELSE /\ Titles(rows) = Titles(result.data)
                    /\ \A i \in 1..Len(rows) :
                         Titles(PointsOf(store, rows[i].id)) =
                            Titles(result.data[i].knowledge_points)

C3_Witness ==
    /\ AtEnd
    /\ Len(chapters_list) = 2
    /\ ~content_results[1].success
    /\ content_results[2].success
    /\ Len(content_results[2].data) = 2
    /\ Len(store.points) > 0

(* C4: the percent values of the progress events published so far are   *)
(* non-decreasing, in every state of every run.                         *)
C4_PercentMonotone == IsNonDecreasing(Percents)

C4_Witness ==
    /\ pc = "done" /\ path = "completed"
    /\ Len(store.chapters) = 2
    /\ Len(Percents) >= 9
    /\ EventsOfType("error") # <<>>

(* C5: every run that has ended published exactly one completion event, *)
(* and that event is the last event of the run.                         *)
C5_OneCompletionLast ==
    pc = "done" =>
        /\ Len(EventsOfType("completion")) = 1
        /\ events[Len(events)].type = "completion"

(* C6: a run in which an exception left the stage-level guards ends with*)
(* nothing uncommitted kept, the course's persisted status failed and a *)
(* completion event with success=false published on its task id.        *)
C6_RaisedRunFails ==
    (pc = "done" /\ path = "raised") =>
        /\ store.course.status = "failed"
        /\ CompletionEvent(TaskId(course_id), FALSE) \in Range(events)

(* C7: the step of generate_course leaves the course committed in the   *)
(* store, answers course_id and task_id = "task-" + course_id with no call *)
(* to the Text Generation Service made, leaves the run submitted (not   *)
(* executed inline), and no other course id gives the same task id.     *)
C7_ImmediateResponse ==
    [][ (pc = "idle" /\ pc' # "idle") =>
          /\ store'.course.exists
          /\ response'.course_id = course_id
          /\ response'.task_id = "task-" \o ToString(course_id)
          /\ llm_calls' = 0
          /\ events' = <<>>
          /\ pc' = "submitted"
          /\ \A other \in CourseIds :
                other # course_id => TaskId(other) # response'.task_id ]_vars

C7_Witness ==
    /\ pc = "submitted"
    /\ store.course.exists
    /\ response = [course_id |-> 12, task_id |-> "task-12"]
    /\ llm_calls = 0

C9_ChapterNumbersConsecutive ==
    pc \in {"content", "content_call"} =>
        /\ { c.chapter_number : c \in Range(store.chapters) } =
              1..Len(store.chapters)
        /\ \A i, j \in 1..Len(store.chapters) :
              i # j => store.chapters[i].chapter_number #
                         store.chapters[j].chapter_number

(* C10: while the content call of a chapter is in flight, the sections and *)
(* knowledge points of every chapter processed before it are committed. *)
C10_ChapterCommitted ==
    pc = "content_call" =>
        /\ \A s \in Range(sess.sections) : s \in Range(store.sections)
        /\ \A p \in Range(sess.points) : p \in Range(store.points)

(* ----------------------- ConnectionManager ----------------------------- *)

Occurrences(seq, x) == Cardinality({i \in 1..Len(seq) : seq[i] = x})

Subscribers(t) ==
    IF t \in DOMAIN active_connections THEN active_connections[t] ELSE {}

IsLive(ws) == conns[ws].client_state = "CONNECTED" /\ conns[ws].peer_open

\* the step in which the broadcast in progress returns or raises
BroadcastEnds == bc.pc = "loop" /\ bc'.pc = "idle"

(* C11: a publish never raises to its caller when a subscriber is no      *)
(* longer connected or its send fails: when it ends, no exception has     *)
(* left it, every connection of its copy has either been sent the event   *)
(* or been collected as dead, and no collected connection is still in     *)
(* the task's set; a publish to a task id without a set changes nothing.  *)
C11_PublishToleratesDeadSubscribers ==
    [][ /\ BroadcastEnds =>
              /\ chan_raised' = "none"
              /\ \A ws \in bc.targets :
                    \/ Occurrences(conns[ws].inbox, bc.event) = 1
                    \/ /\ ws \in bc.disconnected
                       /\ ws \notin Subscribers(bc.task_id)'
        /\ (bc.pc = "idle" /\ events_published' /= events_published
               /\ bc'.pc = "idle") =>
              /\ chan_raised' = "none"
              /\ UNCHANGED <<active_connections, conns>>
      ]_all_vars

(* C12: whatever the interleaving of connect, disconnect and publish on   *)
(* one task id, no operation has raised, and every connection that        *)
(* subscribed, is still connected and was not unsubscribed is in the set  *)
(* of its task id.                                                        *)
C12_InterleavingsAreSafe ==
    /\ chan_raised = "none"
    /\ \A ws \in Conns :
          (conns[ws].handler /= "none" /\ IsLive(ws) /\ ~conns[ws].unsubscribed)
             => ws \in Subscribers(conns[ws].task_id)

(* C13: a task id can have several subscribers; when the loop of a        *)
(* publish is over, every connection of its copy that is still connected  *)
(* has the event exactly once; no connection ever has an event twice, and *)
(* none has the event of a publish it was not registered for; registering *)
(* a connection a second time leaves the registry as it was.              *)
C13_EachSubscriberOnce ==
    /\ \A ws \in Conns : \A e \in 1..events_published :
          Occurrences(conns[ws].inbox, e) <= 1
    /\ (bc.pc = "loop" /\ Remaining = {}) =>
          \A ws \in Conns :
             /\ (ws \in bc.targets /\ IsLive(ws)) =>
                   Occurrences(conns[ws].inbox, bc.event) = 1
             /\ ws \notin bc.targets =>
                   Occurrences(conns[ws].inbox, bc.event) = 0
    /\ \A ws \in Conns, t \in ChannelTasks :
          /\ ws \in Subscribers(t) =>
                Registered(active_connections, ws, t) = active_connections
          /\ Registered(Registered(active_connections, ws, t), ws, t)
                = Registered(active_connections, ws, t)

\* two connections subscribed to one task id have both been sent its event
C13_Witness ==
    /\ bc.pc = "loop" /\ Remaining = {}
    /\ \E a, b \in bc.targets :
          /\ a /= b
          /\ Occurrences(conns[a].inbox, bc.event) = 1
          /\ Occurrences(conns[b].inbox, bc.event) = 1

(* C14: every event a connection has been sent was published after its   *)
(* connect completed, and it has been sent no event twice.                *)
C14_OnlyLaterEvents ==
    \A ws \in Conns :
       /\ \A i \in 1..Len(conns[ws].inbox) :
             conns[ws].inbox[i] > conns[ws].attached_at
       /\ \A i, j \in 1..Len(conns[ws].inbox) :
             conns[ws].inbox[i] = conns[ws].inbox[j] => i = j

\* a connection that attached after an event was published to its task id
\* with another subscriber, and has been sent a later event
C14_Witness ==
    \E ws, other \in Conns :
       /\ ws /= other
       /\ conns[other].task_id = conns[ws].task_id
       /\ conns[ws].attached_at >= 1
       /\ conns[ws].attached_at \in Range(conns[other].inbox)
       /\ conns[ws].inbox /= <<>>

(* C15: once the endpoint of a connection that had subscribed has ended,  *)
(* the connection is no longer in the set of its task id.                 *)
C15_EndedEndpointUnsubscribed ==
    \A ws \in Conns :
       conns[ws].handler = "ended" =>
          ws \notin Subscribers(conns[ws].task_id)

(* ----------------------------- LLMService ------------------------------ *)

FailedAttempt(k) == call.llm.attempts[k] /= "ok"

\* _retry_llm_call is over: it returned a response or raised
RetryOver == call.pc /= "retry"
RetryExhausted == call.raised = "LLMMaxRetriesExceededError"

(* C16, as claimed: a stage's call is attempted at most 3 times, and the  *)
(* retry raises LLMMaxRetriesExceededError after the third consecutive    *)
(* failed attempt.                                                        *)
C16_AtMostThreeAttempts ==
    /\ call.attempts_made <= 3
    /\ RetryExhausted => call.attempts_made = 3

(* C16, amended: with max_retries = 3 a stage's call is attempted at most *)
(* max_retries + 1 = 4 times; the retry raises                            *)
(* LLMMaxRetriesExceededError after the fourth consecutive failed         *)
(* attempt, and only then; it returns the first successful response,      *)
(* making no attempt after it.                                            *)
C16_AtMostFourAttempts ==
    /\ call.attempts_made <= max_retries + 1
    /\ RetryExhausted <=>
          /\ call.attempts_made = max_retries + 1
          /\ \A k \in 1..(max_retries + 1) : FailedAttempt(k)
    /\ (RetryOver /\ ~RetryExhausted) =>
          /\ call.llm.attempts[call.attempts_made] = "ok"
          /\ \A k \in 1..(call.attempts_made - 1) : FailedAttempt(k)

\* three failed attempts were followed by a fourth, which succeeded
C16_Witness ==
    /\ RetryOver /\ ~RetryExhausted
    /\ call.attempts_made = max_retries + 1
    /\ call.slept = <<1, 2, 4>>

ExpectedSuccess ==
    CASE call.stage = "introduction" ->
            generate_course_introduction(call.llm).success
      [] call.stage = "objectives" ->
            generate_learning_objectives(call.llm).success
      [] call.stage = "structure" ->
            generate_chapter_structure(call.llm, <<>>).success
      [] call.stage = "content" ->
            generate_simple_chapter_content(call.llm, <<>>).success

(* C17: whatever the service does, no exception leaves a stage function,  *)
(* and a stage call that is over has handed back a record: success with   *)
(* data, or failure with an error; retry exhaustion and a failed parse or *)
(* repair end in a failure record.                                        *)
C17_StageAlwaysReturnsRecord ==
    /\ call.result.kind /= "exception"
    /\ call.pc = "returned" =>
          /\ call.result.kind = "record"
          /\ call.result.success =>
                call.result.data /= "none" /\ call.result.error = "none"
          /\ ~call.result.success =>
                call.result.data = "none" /\ call.result.error /= "none"
          /\ call.raised /= "none" => ~call.result.success
          /\ call.result.success = ExpectedSuccess

\* every attempt raised or came back short, and the stage call returned a
\* failure record carrying the retry's error
C17_Witness ==
    /\ call.pc = "returned"
    /\ call.raised = "LLMMaxRetriesExceededError"
    /\ call.result = FailureRecord("LLMMaxRetriesExceededError")

(* ------------------------------ documents ------------------------------ *)

\* the documents that delete_document without force has been accepted for
SoftDeleted == {id \in DocIds : docs[id].was_soft_deleted}

(* C18: a document that has been soft-deleted is, in every later state,   *)
(* absent from what list_documents returns, answered 404 by get_document  *)
(* and by retry_document_processing, and still a record of the store with *)
(* is_deleted set.                                                        *)
C18_SoftDeletedStaysHidden ==
    \A id \in SoftDeleted :
       /\ id \notin list_documents_result
       /\ get_document_code(id) = 404
       /\ retry_code(id) = 404
       /\ docs[id].row = "stored"
       /\ docs[id].is_deleted

\* a soft-deleted document whose processing failed has just been refused
\* a retry
C18_Witness ==
    \E id \in SoftDeleted :
       /\ docs[id].status = "failed"
       /\ docs[id].retry_count >= 1
       /\ doc_response = DocResponse("retry", 404)

(* C19: delete_document with force=true on a document that has been       *)
(* soft-deleted removes its record.                                       *)
C19_SoftDeletedHardDeletable ==
    [][ \A id \in SoftDeleted :
           delete_document(id, TRUE) => docs'[id].row = "removed"
      ]_all_vars

\* what the claim requires of a document for its retry to be accepted
RetryAllowed(id) ==
    /\ docs[id].row = "stored"
    /\ ~docs[id].is_deleted
    /\ docs[id].status = "failed"
    /\ docs[id].retry_count < docs[id].max_retries

(* C20: a retry is accepted only for a stored, not deleted document with  *)
(* status failed and retry_count below max_retries: it is answered 200,   *)
(* status becomes uploaded, the error message is cleared, nothing else of *)
(* the record changes and exactly one processing task is added; every     *)
(* other retry is answered 404 or 400 and leaves documents and tasks as   *)
(* they were.                                                             *)
C20_RetryOnlyWhenAllowed ==
    [][ \A id \in DocIds :
           retry_document_processing(id) =>
              IF RetryAllowed(id)
              THEN /\ doc_response'.code = 200
                   /\ docs' = [docs EXCEPT ![id].status = "uploaded",
                                           ![id].error_message = "none"]
                   /\ doc_tasks'[id].queued = doc_tasks[id].queued + 1
                   /\ doc_tasks'[id].running = doc_tasks[id].running
                   /\ \A other \in DocIds \ {id} :
                         doc_tasks'[other] = doc_tasks[other]
              ELSE /\ doc_response'.code \in {404, 400}
                   /\ doc_response'.code = 404 <=>
                         (docs[id].row /= "stored" \/ docs[id].is_deleted)
                   /\ UNCHANGED <<docs, doc_tasks>>
      ]_all_vars

\* a failed document has been retried up to its limit: the last accepted
\* retry left it uploaded with one task queued, after max_retries - 1
\* failures
C20_Witness ==
    \E id \in DocIds :
       /\ doc_response = DocResponse("retry", 200)
       /\ docs[id].status = "uploaded"
       /\ docs[id].error_message = "none"
       /\ docs[id].retry_count = doc_max_retries - 1
       /\ doc_tasks[id].queued = 1

(* --------------------- the run, further properties --------------------- *)

\* course_config['chapters'] of the request: it is handed to
\* generate_chapter_structure, which puts it into its prompt
config_chapters == 1

(* C21: when a run has ended with status published, the course has at     *)
(* least 1 and at most config.chapters chapters and every chapter has at   *)
(* least one section.                                                      *)
C21_PublishedCourseShape ==
    (Ended /\ path = "completed" /\ store.course.status = "published") =>
       /\ Len(store.chapters) >= 1
       /\ Len(store.chapters) <= config_chapters
       /\ \A c \in Range(store.chapters) : Len(SectionsOf(store, c.id)) >= 1

\* the chapters whose content stage has started, in the order it started
StartedChapters ==
    IF pc \in {"content", "content_call"}
    THEN [i \in 1..(IF pc = "content_call" THEN idx ELSE idx - 1) |->
             ChapterById(store, chapters_list[i])]
    ELSE <<>>

(* C23: the content stages of a run execute one at a time, the call for a  *)
(* chapter starting only after the previous one has returned, and in       *)
(* increasing chapter_number order.                                        *)
C23_ContentInChapterOrder ==
    /\ pc = "content_call" => Len(content_results) = idx - 1
    /\ pc = "content" => Len(content_results) = idx - 1
    /\ \A i, j \in 1..Len(StartedChapters) :
          i < j => StartedChapters[i].chapter_number
                      < StartedChapters[j].chapter_number

StageLabels ==
    <<"initializing", "preparing", "introduction", "objectives", "structure",
      "content">>

StageRank(step) == CHOOSE k \in 1..Len(StageLabels) : StageLabels[k] = step

\* the step labels of the progress events published so far
ProgressSteps ==
    [i \in 1..Len(EventsOfType("progress")) |-> EventsOfType("progress")[i].step]

\* the labels start with initializing, never go back and skip no stage
StepsInOrder ==
    /\ \A i \in 1..Len(ProgressSteps) : ProgressSteps[i] \in Range(StageLabels)
    /\ ProgressSteps /= <<>> => ProgressSteps[1] = "initializing"
    /\ \A i \in 1..(Len(ProgressSteps) - 1) :
          \/ StageRank(ProgressSteps[i + 1]) = StageRank(ProgressSteps[i])
          \/ StageRank(ProgressSteps[i + 1]) = StageRank(ProgressSteps[i]) + 1

AllStagesEntered == Range(ProgressSteps) = Range(StageLabels)

(* C24, as claimed: the step labels follow the order initializing,         *)
(* preparing, introduction, objectives, structure, content with no         *)
(* backward transition and no skipped stage, and every run that finds its  *)
(* course has, when it ends, entered each of these stages.                 *)
C24_EveryRunEntersAllStages ==
    /\ StepsInOrder
    /\ (Ended /\ path /= "not_found") => AllStagesEntered

(* C24, amended: the step labels follow that order with no backward        *)
(* transition and no skipped stage in every run; a run that finds its      *)
(* course and is not ended by an exception that leaves the stage-level     *)
(* guards has entered each of the stages, whether its stages succeed or    *)
(* fail; a run ended by such an exception has entered a prefix of them.    *)
C24_StagesInOrder ==
    /\ StepsInOrder
    /\ (Ended /\ path = "completed") => AllStagesEntered
    /\ AllStagesEntered => pc \notin {"submitted", "prepare", "introduction",
                                      "objectives", "structure"}

\* a completed run in which the first three stages all reported failure
C24_Witness ==
    /\ pc = "done" /\ path = "completed"
    /\ AllStagesEntered
    /\ \A step \in {"introduction", "objectives", "structure"} :
          ErrorEvent(task_id, step) \in Range(events)
    /\ Len(ProgressSteps) >= 8

\* the content calls of the run that reported failure so far
FailedContentCalls ==
    Cardinality({i \in 1..Len(content_results) : ~content_results[i].success})

ErrorEventsOf(step) ==
    Len(SelectSeq(events, LAMBDA e : e.type = "error" /\ e.step = step))

(* C25: every stage-level failure the run has absorbed so far has its      *)
(* error event on the run's task id: one for the skeleton stage when it    *)
(* failed, and one for each content call that reported failure.            *)
C25_ErrorEventPerFailure ==
    /\ structure_result = "failure" => ErrorEventsOf("structure") = 1
    /\ ErrorEventsOf("content") >= FailedContentCalls

(* C28: in every state of the store, a course whose status is published    *)
(* has at least one chapter.                                               *)
C28_PublishedHasChapter ==
    (store.course.exists /\ store.course.status = "published") =>
       Len(store.chapters) >= 1

(* ----------------------- LLMService, parse and retry -------------------- *)

\* a parse of the returned text is over
ParseOver == call.pc = "returned" /\ call.tried /= <<>>

(* C22: for a response text that parses directly, the first parse attempt  *)
(* succeeds, with no textual repair and no secondary call, and parsing the *)
(* same text twice yields identical output.                                *)
C22_DirectParseIdempotent ==
    (call.llm.parse = "valid" /\ ParseOver) =>
       /\ call.tried = <<"direct">>
       /\ call.result.success
       /\ call.output /= NoOutput
       /\ call.pass = 2 =>
             /\ call.first.success
             /\ call.first.tried = <<"direct">>
             /\ call.first.output = call.output

\* a directly parsing text has been parsed a second time
C22_Witness ==
    /\ call.llm.parse = "valid" /\ ParseOver
    /\ call.pass = 2
    /\ call.first.output = call.output
    /\ call.output /= NoOutput

(* C26: in the retry loop a missing, empty or shorter-than-10-characters   *)
(* response is a failed attempt like a transport exception; a failed       *)
(* attempt is followed by another whenever attempts remain; the wait after *)
(* failed attempt k, counted from 0, is initial_delay * 2^k (1, 2, 4 s);   *)
(* no wait follows the final attempt.                                      *)
C26_ExponentialBackoff ==
    /\ \A i \in 1..Len(call.slept) : call.slept[i] = initial_delay * (2 ^ (i - 1))
    /\ ~RetryOver =>
          /\ Len(call.slept) = call.attempts_made
          /\ \A k \in 1..call.attempts_made : FailedAttempt(k)
    /\ RetryOver =>
          /\ Len(call.slept) = call.attempts_made - 1
          /\ \A k \in 1..(call.attempts_made - 1) : FailedAttempt(k)
          /\ FailedAttempt(call.attempts_made) =>
                call.attempts_made = max_retries + 1 /\ RetryExhausted

\* a short response and an exception were both retried, the waits were
\* 1, 2 and 4, and the fourth attempt failed with no wait after it
C26_Witness ==
    /\ RetryExhausted
    /\ call.slept = <<1, 2, 4>>
    /\ call.llm.attempts[1] = "short"
    /\ call.llm.attempts[2] = "exception"
    /\ call.llm.attempts[4] = "short"

(* C27: for every stage, the parse attempts are made in the order direct,  *)
(* deterministic repair, fix round trip, each only after the one before    *)
(* failed, and a stage reports a parse failure only after all three have   *)
(* failed.                                                                 *)
C27_ThreeParseAttempts ==
    /\ \A i \in 1..Len(call.tried) : call.tried[i] = <<"direct", "regex", "fix">>[i]
    /\ (ParseOver /\ ~call.result.success) =>
          call.tried = <<"direct", "regex", "fix">>

(* ------------------------ documents, status and retries ----------------- *)

\* the status changes the lifecycle allows
AllowedStatusChanges ==
    { <<"uploaded", "processing">>, <<"processing", "processed">>,
      <<"processing", "failed">>, <<"failed", "uploaded">> }

(* C29: in every step, whatever the interleaving of processing tasks,      *)
(* retries and the sweep, a stored document's status either stays or       *)
(* changes along uploaded -> processing -> processed | failed, or from     *)
(* failed to uploaded and then only by an accepted retry; processed is     *)
(* never left and failed never becomes processed or processing.            *)
C29_StatusLifecycle ==
    [][\A id \in DocIds :
          (/\ docs[id].row = "stored"
           /\ docs'[id].row = "stored"
           /\ docs'[id].status /= docs[id].status) =>
             /\ <<docs[id].status, docs'[id].status>> \in AllowedStatusChanges
             /\ docs[id].status = "failed" =>
                   /\ doc_response' = DocResponse("retry", 200)
                   /\ RetryAllowed(id)]_all_vars

(* C30: in every state, under every interleaving of processing tasks, the  *)
(* sweep and accepted retries, a document's retry_count is at most its     *)
(* max_retries.                                                            *)
C30_RetryCountBounded ==
    \A id \in DocIds :
        docs[id].row = "stored" => docs[id].retry_count <= docs[id].max_retries

(* ---------------------- the run, resources and percent ------------------ *)

(* C38: once the run of a request has terminated, on every termination     *)
(* path, the pool created by generate_course and the pool and the session  *)
(* created by the run have been released.                                  *)
C38_ResourcesReleased ==
    pc = "done" =>
       /\ resources.executor /= "open"
       /\ resources.thread_executor /= "open"
       /\ resources.db /= "open"

(* C39: every percent published by a run lies in 0..100, and a run that    *)
(* completes successfully has published a progress event with percent 100  *)
(* before its completion event.                                            *)
C39_PercentReaches100 ==
    /\ \A i \in 1..Len(Percents) : Percents[i] \in 0..100
    /\ \A i \in 1..Len(events) :
          events[i] = CompletionEvent(task_id, TRUE) =>
             \E j \in 1..(i - 1) :
                 events[j].type = "progress" /\ events[j].percent = 100

(* ---------------------------- the run, termination ---------------------- *)

\* the stage calls of a run are bounded and each chapter is processed once
CallsBounded ==
    /\ llm_calls <= 3 + MaxChapters
    /\ pc \in {"content", "content_call"} =>
          /\ llm_calls = 3 + Len(content_results)
          /\ Len(content_results) <= Len(chapters_list)
          /\ Len(chapters_list) <= MaxChapters
          /\ idx <= Len(chapters_list) + 1

Answers(op) == requests' = requests + 1 /\ reply'.op = op

AnyUpdate ==
    \E c \in CourseIds, data \in EditPayloads :
        \/ Answers("update_course") /\ update_course(c, data)
        \/ Answers("update_chapter") /\
              \E ch \in RequestIds : update_chapter(c, ch, data)
        \/ Answers("update_section") /\
              \E ch \in RequestIds, sec \in RequestIds :
                  update_section(c, ch, sec, data)
        \/ Answers("update_knowledge_point") /\
              \E ch \in RequestIds, sec \in RequestIds, p \in RequestIds :
                  update_knowledge_point(c, ch, sec, p, data)

\* the addressed path exists, each record under the addressed parent
ChapterInCourse(c, ch) ==
    /\ tables.courses[c].exists
    /\ \E r \in tables.chapters : r.id = ch /\ r.course_id = c
SectionInChapter(c, ch, sec) ==
    /\ ChapterInCourse(c, ch)
    /\ \E r \in tables.sections : r.id = sec /\ r.chapter_id = ch
PointInSection(c, ch, sec, p) ==
    /\ SectionInChapter(c, ch, sec)
    /\ \E r \in tables.points : r.id = p /\ r.section_id = sec

\* the step changed at most the row with this id of one table, nothing else
OnlyRowChanged(table, id) ==
    /\ \A name \in {"chapters", "sections", "points"} \ {table} :
          tables'[name] = tables[name]
    /\ tables'.courses = tables.courses
    /\ {r \in tables[table] : r.id /= id} = {r \in tables'[table] : r.id /= id}
    /\ Cardinality({r \in tables'[table] : r.id = id}) = 1

(* C32: in every step of update_chapter, update_section and                *)
(* update_knowledge_point, when every id of the addressed path exists and  *)
(* each record belongs to the addressed parent the answer is 200 and only  *)
(* the addressed record is modified; otherwise the answer is 404 and no    *)
(* record is changed.                                                      *)
C32_UpdatesNeedValidPath ==
    [][\A c \in CourseIds, ch \in RequestIds, data \in EditPayloads :
         /\ (Answers("update_chapter") /\ update_chapter(c, ch, data)) =>
               IF ChapterInCourse(c, ch)
               THEN reply'.code = 200 /\ OnlyRowChanged("chapters", ch)
               ELSE reply'.code = 404 /\ tables' = tables
         /\ \A sec \in RequestIds :
               /\ (Answers("update_section")
                      /\ update_section(c, ch, sec, data)) =>
                     IF SectionInChapter(c, ch, sec)
                     THEN reply'.code = 200 /\ OnlyRowChanged("sections", sec)
                     ELSE reply'.code = 404 /\ tables' = tables
               /\ \A p \in RequestIds :
                     (Answers("update_knowledge_point")
                        /\ update_knowledge_point(c, ch, sec, p, data)) =>
                       IF PointInSection(c, ch, sec, p)
                       THEN reply'.code = 200 /\ OnlyRowChanged("points", p)
                       ELSE reply'.code = 404 /\ tables' = tables]_all_vars

\* two updates were accepted, on a section and on a knowledge point, while
\* both courses had chapters, and the last one answered
C32_Witness ==
    /\ requests = 2
    /\ reply.code = 200
    /\ \E r \in tables.sections : r.title = "edited"
    /\ \E r \in tables.points : r.title = "edited"
    /\ \A c \in CourseIds : ChaptersOf(tables, c) /= {}

\* a starts with b followed by a dot
StartsWithDotted(a, b) ==
    Len(a) > Len(b) /\ SubSeq(a, 1, Len(b) + 1) = b \o <<DotChar>>

HierarchicalKeys ==
    /\ \A sec \in tables.sections :
          \E ch \in tables.chapters :
              /\ ch.id = sec.chapter_id
              /\ StartsWithDotted(sec.section_number, Str(ch.chapter_number))
    /\ \A p \in tables.points :
          \E sec \in tables.sections :
              /\ sec.id = p.section_id
              /\ StartsWithDotted(p.point_id, sec.section_number)

\* the keys and parents of all rows
KeysOf(t) ==
    [chapters |-> {<<r.id, r.course_id, r.chapter_number>> : r \in t.chapters},
     sections |-> {<<r.id, r.chapter_id, r.section_number>> : r \in t.sections},
     points |-> {<<r.id, r.section_id, r.point_id>> : r \in t.points}]

(* C33: in every state, after any runs and updates, every section's        *)
(* section_number starts with its parent chapter's chapter_number and      *)
(* every knowledge point's point_id with its parent section's              *)
(* section_number; and no step of update_course, update_chapter,           *)
(* update_section or update_knowledge_point changes a chapter_number,      *)
(* section_number, point_id or the parent of a record.                     *)
C33_DottedKeysStayHierarchical ==
    /\ []HierarchicalKeys
    /\ [][AnyUpdate => KeysOf(tables') = KeysOf(tables)]_all_vars

\* an edited chapter has a section, and that section a knowledge point
C33_Witness ==
    \E ch \in tables.chapters, sec \in tables.sections, p \in tables.points :
        /\ ch.title = "edited"
        /\ sec.chapter_id = ch.id
        /\ p.section_id = sec.id

(* C34: in every step of delete_course on an existing course the answer is *)
(* 200, no chapter, section or knowledge point that belonged to the course *)
(* remains and the records of every other course are unchanged; on a       *)
(* course id that does not exist the answer is 404 and nothing changes.    *)
C34_DeleteCascades ==
    [][\A c \in CourseIds :
         (Answers("delete_course") /\ delete_course(c)) =>
            IF tables.courses[c].exists
            THEN LET chs == ChaptersOf(tables, c)
                     secs == SectionsUnder(tables, chs)
                     pts == PointsUnder(tables, secs)
                 IN /\ reply'.code = 200
                    /\ ~tables'.courses[c].exists
                    /\ tables'.chapters = tables.chapters \ chs
                    /\ tables'.sections = tables.sections \ secs
                    /\ tables'.points = tables.points \ pts
                    /\ \A r \in tables'.sections :
                          \E ch \in tables'.chapters : ch.id = r.chapter_id
                    /\ \A r \in tables'.points :
                          \E sec \in tables'.sections : sec.id = r.section_id
                    /\ \A d \in CourseIds \ {c} :
                          tables'.courses[d] = tables.courses[d]
            ELSE reply'.code = 404 /\ tables' = tables]_all_vars

\* a course whose run had completed was deleted; the other course still has
\* its sections and points
C34_Witness ==
    /\ reply.op = "delete_course" /\ reply.code = 200
    /\ \E c \in CourseIds :
          /\ runs[c].outcome = "completed"
          /\ ~tables.courses[c].exists
    /\ tables.chapters /= {} /\ tables.sections /= {} /\ tables.points /= {}

IdsIncrease(rows) == \A i, j \in 1..Len(rows) : i < j => rows[i].id < rows[j].id

(* C35: the tree get_course_detail answers with has its chapters in        *)
(* increasing chapter_number and, in the order in which the run generated  *)
(* them (1.2 before 1.10), the sections of each chapter and the knowledge  *)
(* points of each section.                                                 *)
C35_DetailInGenerationOrder ==
    (reply.op = "get_course_detail" /\ reply.code = 200) =>
       /\ \A i, j \in 1..Len(reply.body) :
             i < j => reply.body[i].chapter_number < reply.body[j].chapter_number
       /\ \A i \in 1..Len(reply.body) :
             /\ IdsIncrease(reply.body[i].sections)
             /\ \A n \in 1..Len(reply.body[i].sections) :
                   IdsIncrease(reply.body[i].sections[n].knowledge_points)

\* the rows a run of this script leaves under its course, without row ids
ExpectedKeys(script) ==
    LET per == IF script.lacking = "none" THEN script.ns ELSE 1
    IN  [chapters |-> 1..script.chapters,
         sections |-> {Dotted(<<i, n>>) : i \in 1..script.chapters, n \in 1..per},
         points |-> IF script.lacking = "none"
                    THEN {Dotted(<<i, 1, 1>>) : i \in 1..script.chapters}
                    ELSE {}]

CourseKeys(c) ==
    LET chs == ChaptersOf(tables, c)
        secs == SectionsUnder(tables, chs)
    IN  [chapters |-> {r.chapter_number : r \in chs},
         sections |-> {r.section_number : r \in secs},
         points |-> {r.point_id : r \in PointsUnder(tables, secs)}]

NoKeys == [chapters |-> {}, sections |-> {}, points |-> {}]

(* C37: runs for different courses are independent: every event the        *)
(* subscribers of a task id received was published by the run of the       *)
(* course of that task id; the rows under a course are those its own run   *)
(* has committed so far, whatever the run of the other course has done;    *)
(* and the rows under a course whose run completed are the ones its own    *)
(* responses determine.                                                    *)
C37_RunsIndependent ==
    /\ \A t \in TreeTasks : \A i \in 1..Len(inboxes[t]) :
          /\ inboxes[t][i].task_id = t
          /\ "task-" \o ToString(inboxes[t][i].course_id) = t
    /\ \A c \in CourseIds :
          /\ Len(inboxes["task-" \o ToString(c)]) <= 3
          /\ tables.courses[c].exists =>
                CASE runs[c].pc \in {"none", "submitted", "skeleton"} ->
                        CourseKeys(c) = NoKeys
                  [] runs[c].pc = "content" ->
                        CourseKeys(c) =
                           [NoKeys EXCEPT !.chapters = 1..runs[c].script.chapters]
                  [] runs[c].outcome = "completed" ->
                        CourseKeys(c) = ExpectedKeys(runs[c].script)
                  [] OTHER -> TRUE

\* two completed runs that were interleaved: the chapters of one course
\* were committed first, its sections last
C37_Witness ==
    /\ \A c \in CourseIds :
          runs[c].outcome = "completed" /\ tables.courses[c].exists
    /\ \A t \in TreeTasks : Len(inboxes[t]) = 3
    /\ \E a, b \in tables.chapters, x, y \in tables.sections :
          /\ a.course_id /= b.course_id
          /\ x.chapter_id = a.id /\ y.chapter_id = b.id
          /\ a.id < b.id /\ y.id < x.id

(* C40: when the first section descriptor of a chapter's content response  *)
(* lacks its title, the chapter's content stage does not fail and the      *)
(* section is created with the title 'Section 1'; when it lacks its        *)
(* knowledge points, the stage does not fail and the section is created    *)
(* with no knowledge point.                                                *)
C40_MissingFieldsTolerated ==
    \A c \in CourseIds :
        (/\ runs[c].outcome = "completed"
         /\ tables.courses[c].exists
         /\ requests = 0
         /\ runs[c].script.lacking /= "none") =>
           /\ runs[c].content_failed = {}
           /\ \A ch \in ChaptersOf(tables, c) :
                 \E sec \in tables.sections :
                     /\ sec.chapter_id = ch.id
                     /\ sec.section_number = Dotted(<<ch.chapter_number, 1>>)
                     /\ runs[c].script.lacking = "title" =>
                           sec.title = "Section " \o ToString(1)
                     /\ runs[c].script.lacking = "knowledge_points" =>
                           PointsUnder(tables, {sec}) = {}

(* ------------------------ properties: uploads --------------------------- *)

\* the allow-list, spelled out, and a comparison of letters that ignores case
AllowedSuffixes ==
    {<<"p", "d", "f">>, <<"d", "o", "c", "x">>, <<"d", "o", "c">>,
     <<"x", "l", "s", "x">>, <<"x", "l", "s">>, <<"t", "x", "t">>,
     <<"m", "d">>}

SameLetter(a, b) ==
    \/ a = b
    \/ <<a, b>> \in {<<"P", "p">>, <<"D", "d">>, <<"F", "f">>, <<"O", "o">>,
                     <<"C", "c">>, <<"X", "x">>, <<"L", "l">>, <<"S", "s">>,
                     <<"T", "t">>, <<"M", "m">>}

\* the name ends with an allowed extension: what follows its last dot (the
\* whole name when it has no dot) is an entry of the allow-list
HasAllowedExtension(filename) ==
    \E suffix \in AllowedSuffixes :
        LET n == Len(filename)
            k == Len(suffix)
        IN  /\ n >= k
            /\ \A i \in 1..k : SameLetter(filename[n - k + i], suffix[i])
            /\ n = k \/ filename[n - k] = "."

(* C31: upload_document answers 400 to a file whose extension is not in    *)
(* the allow-list or whose size exceeds the maximum, and then writes no    *)
(* file, creates no record and schedules no task; an accepted upload       *)
(* creates exactly one record, in status uploaded with its file written,   *)
(* and schedules exactly one processing task for it.                       *)
C31_UploadValidated ==
    [][\A id \in DocIds, file \in UploadFiles :
          (doc_response'.op = "upload" /\ upload_document(id, file)) =>
             IF \/ ~HasAllowedExtension(file.filename)
                \/ file.size > MAX_UPLOAD_SIZE
             THEN /\ doc_response' = DocResponse("upload", 400)
                  /\ docs' = docs
                  /\ doc_tasks' = doc_tasks
             ELSE /\ doc_response' = DocResponse("upload", 200)
                  /\ docs[id].row = "none" /\ docs[id].file = "none"
                  /\ docs'[id].row = "stored"
                  /\ docs'[id].status = "uploaded"
                  /\ docs'[id].file = "written"
                  /\ doc_tasks'[id].queued = doc_tasks[id].queued + 1
                  /\ doc_tasks'[id].running = doc_tasks[id].running
                  /\ \A other \in DocIds \ {id} :
                        /\ docs'[other] = docs[other]
                        /\ doc_tasks'[other] = doc_tasks[other]
      ]_all_vars

\* one upload was accepted and is waiting for its task, the next was rejected
C31_Witness ==
    /\ doc_response = DocResponse("upload", 400)
    /\ \E id \in DocIds :
          /\ docs[id].row = "stored" /\ docs[id].status = "uploaded"
          /\ docs[id].file = "written"
          /\ doc_tasks[id] = [queued |-> 1, running |-> 0]
          /\ \A other \in DocIds \ {id} :
                /\ docs[other] = NoDocument
                /\ doc_tasks[other] = [queued |-> 0, running |-> 0]

====
